---- MODULE Spec2Model ----
(***************************************************************************)
(* dualsensectl: the DualSense output/input report codec and the session  *)
(* that drives it (src/src/Dualsense.c, src/src/main.c).                  *)
(*                                                                         *)
(* A session is one struct dualsense on which commands are called one      *)
(* after another.  A write command runs in two steps: the command body up  *)
(* to its call of dualsense_send_output_report (pc = "idle" -> "send"),    *)
(* then dualsense_send_output_report and the command's return              *)
(* (pc = "send" -> "idle").  Commands that return before sending, and the  *)
(* read commands, are one step.  The process that runs one command and     *)
(* returns its status is main; the hotplug monitor, which opens no         *)
(* session, is modelled with the processes it forks.                       *)
(***************************************************************************)
EXTENDS Integers, Sequences, FiniteSets, TLC

VARIABLES
    ds,        \* struct dualsense: dev, bt, output_seq, mac_address
    rp,        \* the running command's struct dualsense_output_report (+ rbuf)
    pc,        \* "idle": between commands; "send": at dualsense_send_output_report;
               \* "exit": main has returned
    cmd,       \* name of the command running, or of the last one run
    args,      \* its arguments
    ret,       \* return value (exit status) of the last command that returned
    out,       \* what the command running / last run printed on stdout
    err,       \* what the last command that returned printed on stderr
    hid,       \* the hidapi calls of the command running / last run, in order
    wire_seq,  \* sequence nibble of the last Bluetooth report given to hid_write
    ncmd,      \* number of commands called on the session so far
    monitor    \* command_monitor: sh_command_wait, its position, the events it
               \* has taken and the processes forked for them

vars == <<ds, rp, pc, cmd, args, ret, out, err, hid, wire_seq, ncmd, monitor>>

(***************************************************************************)
(* Bounds of the model.                                                    *)
(***************************************************************************)
\* player-leds numbers tried: 0..MaxPlayerNumber (the code accepts 0..5)
MaxPlayerNumber == 6
\* hid_read_timeout / hid_get_feature_report byte counts tried besides the
\* report sizes and their neighbours: 1..MaxShortRead
MaxShortRead == 2
\* commands called on one session
MaxCommands == 3
\* status bytes tried in a full input report on a session that runs other
\* commands too: 5 (discharging, 55%) up to 5 + 21 * (MaxStatusSamples - 1)
MaxStatusSamples == 2

\* trigger-effect positions tried: 0..MaxPosition (the code accepts up to 9)
MaxPosition == 10
\* trigger-effect strengths, amplitudes and snap forces tried: 0..MaxStrength
\* (the code accepts up to 8)
MaxStrength == 9
\* galloping feet tried: 0..MaxFoot (the code accepts up to 7)
MaxFoot == 8
\* reports a session has initialised before the commands observed
MaxSent == 16
\* devices and hotplug events the monitor takes
MaxEvents == 3

(***************************************************************************)
(* Protocol constants (Dualsense.c, header part).                          *)
(***************************************************************************)
PS_OUTPUT_CRC32_SEED == 162
DS_INPUT_REPORT_USB == 1
DS_INPUT_REPORT_USB_SIZE == 64
DS_INPUT_REPORT_BT == 49
DS_INPUT_REPORT_BT_SIZE == 78
DS_OUTPUT_REPORT_USB == 2
DS_OUTPUT_REPORT_BT == 49
DS_FEATURE_REPORT_FIRMWARE_INFO == 32
DS_FEATURE_REPORT_FIRMWARE_INFO_SIZE == 64
DS_OUTPUT_TAG == 16

BIT(n) == 2 ^ n

DS_OUTPUT_VALID_FLAG0_RIGHT_TRIGGER_MOTOR_ENABLE == BIT(2)
DS_OUTPUT_VALID_FLAG0_LEFT_TRIGGER_MOTOR_ENABLE == BIT(3)
DS_OUTPUT_VALID_FLAG0_HEADPHONE_VOLUME_ENABLE == BIT(4)
DS_OUTPUT_VALID_FLAG0_SPEAKER_VOLUME_ENABLE == BIT(5)
DS_OUTPUT_VALID_FLAG0_AUDIO_CONTROL_ENABLE == BIT(7)
DS_OUTPUT_VALID_FLAG1_MIC_MUTE_LED_CONTROL_ENABLE == BIT(0)
DS_OUTPUT_VALID_FLAG1_POWER_SAVE_CONTROL_ENABLE == BIT(1)
DS_OUTPUT_VALID_FLAG1_LIGHTBAR_CONTROL_ENABLE == BIT(2)
DS_OUTPUT_VALID_FLAG1_PLAYER_INDICATOR_CONTROL_ENABLE == BIT(4)
DS_OUTPUT_VALID_FLAG1_VIBRATION_ATTENUATION_ENABLE == BIT(6)
DS_OUTPUT_VALID_FLAG2_LIGHTBAR_SETUP_CONTROL_ENABLE == BIT(1)
DS_OUTPUT_POWER_SAVE_CONTROL_MIC_MUTE == BIT(4)
DS_OUTPUT_LIGHTBAR_SETUP_LIGHT_ON == BIT(0)
DS_OUTPUT_LIGHTBAR_SETUP_LIGHT_OUT == BIT(1)
DS_OUTPUT_AUDIO_OUTPUT_PATH_SHIFT == 4
DS_STATUS_BATTERY_CAPACITY == 15
DS_STATUS_CHARGING == 240
DS_STATUS_CHARGING_SHIFT == 4
DS_TRIGGER_EFFECT_OFF == 5
DS_TRIGGER_EFFECT_FEEDBACK == 33
DS_TRIGGER_EFFECT_BOW == 34
DS_TRIGGER_EFFECT_GALLOPING == 35
DS_TRIGGER_EFFECT_WEAPON == 37
DS_TRIGGER_EFFECT_VIBRATION == 38
DS_TRIGGER_EFFECT_MACHINE == 39

(***************************************************************************)
(* C integer operators on the values the code applies them to.             *)
(***************************************************************************)
RECURSIVE BitAnd(_, _)
BitAnd(a, b) ==
    IF a = 0 \/ b = 0 THEN 0
    ELSE ((a % 2) * (b % 2)) + 2 * BitAnd(a \div 2, b \div 2)

RECURSIVE BitOr(_, _)
BitOr(a, b) ==
    IF a = 0 THEN b
    ELSE IF b = 0 THEN a
    ELSE (IF (a % 2) + (b % 2) > 0 THEN 1 ELSE 0) + 2 * BitOr(a \div 2, b \div 2)

RECURSIVE BitXor(_, _)
BitXor(a, b) ==
    IF a = 0 THEN b
    ELSE IF b = 0 THEN a
    ELSE (((a % 2) + (b % 2)) % 2) + 2 * BitXor(a \div 2, b \div 2)

Shl(a, n) == a * (2 ^ n)
Shr(a, n) == a \div (2 ^ n)
\* conversion to uint8_t
U8(x) == x % 256
\* conversion to uint16_t
U16(x) == x % 65536
\* ~m of a one-byte mask, as it acts on a uint8_t operand
NotU8(m) == 255 - m

(***************************************************************************)
(* Packed struct layouts: field names and sizes in declaration order.      *)
(***************************************************************************)
dualsense_output_report_common ==
    << <<"valid_flag0", 1>>, <<"valid_flag1", 1>>,
       <<"motor_right", 1>>, <<"motor_left", 1>>,
       <<"headphone_audio_volume", 1>>, <<"speaker_audio_volume", 1>>,
       <<"internal_microphone_volume", 1>>, <<"audio_flags", 1>>,
       <<"mute_button_led", 1>>, <<"power_save_control", 1>>,
       <<"right_trigger_motor_mode", 1>>, <<"right_trigger_param", 10>>,
       <<"left_trigger_motor_mode", 1>>, <<"left_trigger_param", 10>>,
       <<"reserved2", 4>>, <<"reduce_motor_power", 1>>, <<"audio_flags2", 1>>,
       <<"valid_flag2", 1>>, <<"reserved3", 2>>, <<"lightbar_setup", 1>>,
       <<"led_brightness", 1>>, <<"player_leds", 1>>,
       <<"lightbar_red", 1>>, <<"lightbar_green", 1>>, <<"lightbar_blue", 1>> >>

RECURSIVE SumSizes(_, _)
SumSizes(layout, n) ==
    IF n = 0 THEN 0 ELSE layout[n][2] + SumSizes(layout, n - 1)

\* sizeof of a packed struct
SizeOf(layout) == SumSizes(layout, Len(layout))

\* offsetof of a field of a packed struct
OffsetOf(layout, name) ==
    LET i == CHOOSE k \in 1..Len(layout) : layout[k][1] = name
    IN SumSizes(layout, i - 1)

dualsense_output_report_bt ==
    << <<"report_id", 1>>, <<"seq_tag", 1>>, <<"tag", 1>>,
       <<"common", SizeOf(dualsense_output_report_common)>>,
       <<"reserved", 24>>, <<"crc32", 4>> >>

\* dualsense_output_report_usb with one more byte of padding
dualsense_output_report_usb_padded ==
    << <<"report_id", 1>>,
       <<"common", SizeOf(dualsense_output_report_common)>>,
       <<"reserved", 16>> >>

dualsense_output_report_usb ==
    << <<"report_id", 1>>,
       <<"common", SizeOf(dualsense_output_report_common)>>,
       <<"reserved", 15>> >>

dualsense_input_report ==
    << <<"x", 1>>, <<"y", 1>>, <<"rx", 1>>, <<"ry", 1>>, <<"z", 1>>, <<"rz", 1>>,
       <<"seq_number", 1>>, <<"buttons", 4>>, <<"reserved", 4>>,
       <<"gyro", 6>>, <<"accel", 6>>, <<"sensor_timestamp", 4>>,
       <<"reserved2", 1>>, <<"points", 8>>, <<"reserved3", 12>>,
       <<"status", 1>>, <<"reserved4", 10>> >>

\* memset(p, 0, n)
Zeros(n) == [i \in 1..n |-> 0]

(***************************************************************************)
(* crc32_le of dualsensectl/crc32.h: the reflected CRC-32 (polynomial     *)
(* 0xEDB88320), no pre- or post-inversion.  TLC integers are 32-bit        *)
(* signed, so a uint32_t is kept as its four bytes, least significant      *)
(* first.                                                                  *)
(***************************************************************************)
U32_ONES == <<255, 255, 255, 255>>
CRC32_POLY == <<32, 131, 184, 237>>

XorByte == [a \in 0..255 |-> [b \in 0..255 |-> BitXor(a, b)]]

Xor32(u, v) ==
    <<XorByte[u[1]][v[1]], XorByte[u[2]][v[2]], XorByte[u[3]][v[3]], XorByte[u[4]][v[4]]>>

\* u >> 1
Shr32_1(u) ==
    << (u[1] \div 2) + 128 * (u[2] % 2), (u[2] \div 2) + 128 * (u[3] % 2),
       (u[3] \div 2) + 128 * (u[4] % 2), u[4] \div 2 >>

\* ~u
Not32(u) == <<255 - u[1], 255 - u[2], 255 - u[3], 255 - u[4]>>

RECURSIVE crc32_bits(_, _)
crc32_bits(crc, n) ==
    IF n = 0 THEN crc
    ELSE crc32_bits(IF crc[1] % 2 = 1 THEN Xor32(Shr32_1(crc), CRC32_POLY)
                    ELSE Shr32_1(crc), n - 1)

crc32_table == [i \in 0..255 |-> crc32_bits(<<i, 0, 0, 0>>, 8)]

\* one byte: crc = table[(crc ^ b) & 0xff] ^ (crc >> 8)
crc32_byte(crc, b) ==
    LET t == crc32_table[XorByte[crc[1]][b]]
    IN <<XorByte[t[1]][crc[2]], XorByte[t[2]][crc[3]], XorByte[t[3]][crc[4]], t[4]>>

\* the bytes p[lo..hi] in order; crc[1] is read first so that the running
\* value is evaluated before the next block starts
RECURSIVE crc32_range(_, _, _, _)
crc32_range(crc, p, lo, hi) ==
    IF lo > hi \/ crc[1] < 0 THEN crc
    ELSE IF lo = hi THEN crc32_byte(crc, p[lo])
    ELSE LET mid == (lo + hi) \div 2
         IN crc32_range(crc32_range(crc, p, lo, mid), p, mid + 1, hi)

\* crc32_le(crc, p, len): p is the buffer, len the number of its bytes read
crc32_le(crc, p, len) == crc32_range(crc, p, 1, len)

(***************************************************************************)
(* struct dualsense_output_report over its buffer.  data[i + 1] is byte i  *)
(* of the buffer; common is the byte offset of the common block; bt is     *)
(* TRUE when rp->bt is not NULL.                                           *)
(***************************************************************************)
NoReport == [data |-> <<>>, len |-> 0, bt |-> FALSE, common |-> 0]

CommonIndex(r, field, k) ==
    r.common + OffsetOf(dualsense_output_report_common, field) + k + 1

\* rp.common->field
GetCommon(r, field) == r.data[CommonIndex(r, field, 0)]
\* rp.common->field[k]
GetCommonAt(r, field, k) == r.data[CommonIndex(r, field, k)]
\* rp.common->field = v
SetCommon(r, field, v) == [r EXCEPT !.data[CommonIndex(r, field, 0)] = U8(v)]
\* rp.common->field[k] = v
SetCommonAt(r, field, k, v) == [r EXCEPT !.data[CommonIndex(r, field, k)] = U8(v)]

\* ++ds->output_seq with no wrap to 0
NextOutputSeq_NoWrap(seq) == seq + 1

\* the value of ds->output_seq after ++ds->output_seq == 16 ? 0
NextOutputSeq(seq) == IF seq + 1 = 16 THEN 0 ELSE seq + 1

\* bt->seq_tag = (ds->output_seq << 4) | 0x0
SeqTag(seq) == U8(BitOr(Shl(seq, 4), 0))

dualsense_init_output_report(d) ==
    IF d.bt
    THEN LET size == SizeOf(dualsense_output_report_bt)
             buf == [Zeros(size) EXCEPT
                       ![OffsetOf(dualsense_output_report_bt, "report_id") + 1] =
                           DS_OUTPUT_REPORT_BT,
                       ![OffsetOf(dualsense_output_report_bt, "tag") + 1] = DS_OUTPUT_TAG,
                       ![OffsetOf(dualsense_output_report_bt, "seq_tag") + 1] =
                           SeqTag(d.output_seq)]
         IN [ds |-> [d EXCEPT !.output_seq = NextOutputSeq(d.output_seq)],
             rp |-> [data |-> buf, len |-> size, bt |-> TRUE,
                     common |-> OffsetOf(dualsense_output_report_bt, "common")]]
    ELSE LET size == SizeOf(dualsense_output_report_usb)
             buf == [Zeros(size) EXCEPT
                       ![OffsetOf(dualsense_output_report_usb, "report_id") + 1] =
                           DS_OUTPUT_REPORT_USB]
         IN [ds |-> d,
             rp |-> [data |-> buf, len |-> size, bt |-> FALSE,
                     common |-> OffsetOf(dualsense_output_report_usb, "common")]]

\* OutputReportCrc with the seed byte left out
OutputReportCrc_NoSeed(r) ==
    Not32(crc32_le(U32_ONES, r.data, r.len - 4))

\* crc = crc32_le(0xFFFFFFFF, &seed, 1); crc = ~crc32_le(crc, report->data, report->len - 4)
OutputReportCrc(r) ==
    Not32(crc32_le(crc32_le(U32_ONES, <<PS_OUTPUT_CRC32_SEED>>, 1), r.data, r.len - 4))

\* report->bt->crc32 = crc: a uint32_t store into the packed struct, low byte first
StoreCrc(r, crc) ==
    LET at == OffsetOf(dualsense_output_report_bt, "crc32")
    IN [r EXCEPT !.data = [i \in 1..Len(r.data) |->
                             IF i > at /\ i <= at + 4 THEN crc[i - at] ELSE r.data[i]]]

\* the report as dualsense_send_output_report hands it to hid_write
SignOutputReport(r) == IF r.bt THEN StoreCrc(r, OutputReportCrc(r)) ELSE r

(***************************************************************************)
(* The session and the steps shared by the commands.                       *)
(***************************************************************************)
\* ret before any command has returned
NoStatus == "none"
\* wire_seq is <<>> before any Bluetooth report was given to hid_write, then <<nibble>>
NoSeq == <<>>

\* dualsense_init: memset(ds, 0, sizeof(*ds)), then dev = hid_open(...),
\* mac_address and bt
dualsense_init(bt) ==
    [dev |-> "open", bt |-> bt, output_seq |-> 0, mac_address |-> "00:00:00:00:00:00"]

\* no monitor runs beside a session
NoMonitor == [sh_command_wait |-> FALSE, pc |-> "none", event |-> <<>>, child |-> <<>>,
              grandchild |-> <<>>]

Init ==
    /\ ds \in {dualsense_init(bt) : bt \in BOOLEAN}
    /\ rp = NoReport
    /\ pc = "idle"
    /\ cmd = "none"
    /\ args = <<>>
    /\ ret = NoStatus
    /\ out = <<>>
    /\ err = <<>>
    /\ hid = <<>>
    /\ wire_seq = NoSeq
    /\ ncmd = 0
    /\ monitor = NoMonitor

\* a command is called
Enter(name, a) ==
    /\ pc = "idle"
    /\ ncmd < MaxCommands
    /\ cmd' = name
    /\ args' = a
    /\ ncmd' = ncmd + 1
    /\ UNCHANGED monitor

\* fprintf(stderr, message); return status; with no hidapi call made
Fail(status, message) ==
    /\ ret' = status
    /\ err' = <<message>>
    /\ out' = <<>>
    /\ hid' = <<>>
    /\ pc' = "idle"
    /\ UNCHANGED wire_seq

\* the command, having printed the lines printed on stdout, goes on to
\* dualsense_send_output_report(ds, &rp)
ToSendPrinted(r, printed) ==
    /\ rp' = r
    /\ hid' = <<>>
    /\ out' = printed
    /\ pc' = "send"
    /\ UNCHANGED <<ret, err, wire_seq>>

\* the command goes on to dualsense_send_output_report(ds, &rp)
ToSend(r) == ToSendPrinted(r, <<>>)

\* results hid_write can give for a report of len bytes
HidWriteResults(len) == {len, -1}

\* dualsense_send_output_report calling hid_write a second time when the
\* first call failed
SendOutputReport_Retrying ==
    /\ pc = "send"
    /\ \E res \in HidWriteResults(rp.len) :
         LET r == SignOutputReport(rp)
             w == [fn |-> "hid_write", data |-> SubSeq(r.data, 1, r.len),
                   len |-> r.len, res |-> res]
         IN /\ rp' = r
            /\ hid' = IF res < 0 THEN <<w, w>> ELSE <<w>>
            /\ err' = IF res < 0 THEN <<"Error: hid_error">> ELSE <<>>
            /\ wire_seq' = IF r.bt THEN <<Shr(r.data[2], 4)>> ELSE wire_seq
    /\ ret' = 0
    /\ pc' = "idle"
    /\ UNCHANGED <<ds, cmd, args, out, ncmd, monitor>>

\* dualsense_send_output_report, then the command's return 0
SendOutputReport ==
    /\ pc = "send"
    /\ \E res \in HidWriteResults(rp.len) :
         LET r == SignOutputReport(rp)
         IN /\ rp' = r
            /\ hid' = Append(hid, [fn |-> "hid_write", data |-> SubSeq(r.data, 1, r.len),
                                   len |-> r.len, res |-> res])
            /\ err' = IF res < 0 THEN <<"Error: hid_error">> ELSE <<>>
            /\ wire_seq' = IF r.bt THEN <<Shr(r.data[2], 4)>> ELSE wire_seq
    /\ ret' = 0
    /\ pc' = "idle"
    /\ UNCHANGED <<ds, cmd, args, out, ncmd, monitor>>

(***************************************************************************)
(* The write commands.                                                     *)
(***************************************************************************)
command_lightbar1(state) ==
    /\ Enter("lightbar1", <<state>>)
    /\ LET i == dualsense_init_output_report(ds)
           r == SetCommon(i.rp, "valid_flag2",
                          DS_OUTPUT_VALID_FLAG2_LIGHTBAR_SETUP_CONTROL_ENABLE)
       IN /\ ds' = i.ds
          /\ IF state = "on"
             THEN ToSend(SetCommon(r, "lightbar_setup", DS_OUTPUT_LIGHTBAR_SETUP_LIGHT_ON))
             ELSE IF state = "off"
             THEN ToSend(SetCommon(r, "lightbar_setup", DS_OUTPUT_LIGHTBAR_SETUP_LIGHT_OUT))
             ELSE rp' = r /\ Fail(1, "Invalid state")

\* command_lightbar3 with brightness * channel computed in 8 bits
command_lightbar3_Byte(red, green, blue, brightness) ==
    /\ Enter("lightbar3", <<red, green, blue, brightness>>)
    /\ LET i == dualsense_init_output_report(ds)
           max_brightness == 255
           r0 == SetCommon(i.rp, "valid_flag1", DS_OUTPUT_VALID_FLAG1_LIGHTBAR_CONTROL_ENABLE)
           r1 == SetCommon(r0, "lightbar_red", U8(brightness * red) \div max_brightness)
           r2 == SetCommon(r1, "lightbar_green", U8(brightness * green) \div max_brightness)
           r3 == SetCommon(r2, "lightbar_blue", U8(brightness * blue) \div max_brightness)
       IN /\ ds' = i.ds
          /\ ToSend(r3)

command_lightbar3(red, green, blue, brightness) ==
    /\ Enter("lightbar3", <<red, green, blue, brightness>>)
    /\ LET i == dualsense_init_output_report(ds)
           max_brightness == 255
           r0 == SetCommon(i.rp, "valid_flag1", DS_OUTPUT_VALID_FLAG1_LIGHTBAR_CONTROL_ENABLE)
           r1 == SetCommon(r0, "lightbar_red", (brightness * red) \div max_brightness)
           r2 == SetCommon(r1, "lightbar_green", (brightness * green) \div max_brightness)
           r3 == SetCommon(r2, "lightbar_blue", (brightness * blue) \div max_brightness)
       IN /\ ds' = i.ds
          /\ ToSend(r3)

\* player_ids with the pattern of player 3 missing its centre LED
player_ids_NoCentre ==
    << 0,
       BIT(2),
       BitOr(BIT(3), BIT(1)),
       BitOr(BIT(4), BIT(0)),
       BitOr(BIT(4), BitOr(BIT(3), BitOr(BIT(1), BIT(0)))),
       BitOr(BIT(4), BitOr(BIT(3), BitOr(BIT(2), BitOr(BIT(1), BIT(0))))) >>

player_ids ==
    << 0,
       BIT(2),
       BitOr(BIT(3), BIT(1)),
       BitOr(BIT(4), BitOr(BIT(2), BIT(0))),
       BitOr(BIT(4), BitOr(BIT(3), BitOr(BIT(1), BIT(0)))),
       BitOr(BIT(4), BitOr(BIT(3), BitOr(BIT(2), BitOr(BIT(1), BIT(0))))) >>

command_player_leds(number) ==
    /\ Enter("player_leds", <<number>>)
    /\ IF number > 5
       THEN /\ rp' = NoReport
            /\ ds' = ds
            /\ Fail(1, "Invalid player number")
       ELSE LET i == dualsense_init_output_report(ds)
                r0 == SetCommon(i.rp, "valid_flag1",
                                DS_OUTPUT_VALID_FLAG1_PLAYER_INDICATOR_CONTROL_ENABLE)
                r1 == SetCommon(r0, "player_leds", player_ids[number + 1])
            IN /\ ds' = i.ds
               /\ ToSend(r1)

command_microphone(state) ==
    /\ Enter("microphone", <<state>>)
    /\ LET i == dualsense_init_output_report(ds)
           r == SetCommon(i.rp, "valid_flag1", DS_OUTPUT_VALID_FLAG1_POWER_SAVE_CONTROL_ENABLE)
           psc == GetCommon(r, "power_save_control")
       IN /\ ds' = i.ds
          /\ IF state = "on"
             THEN ToSend(SetCommon(r, "power_save_control",
                          BitAnd(psc, NotU8(DS_OUTPUT_POWER_SAVE_CONTROL_MIC_MUTE))))
             ELSE IF state = "off"
             THEN ToSend(SetCommon(r, "power_save_control",
                          BitOr(psc, DS_OUTPUT_POWER_SAVE_CONTROL_MIC_MUTE)))
             ELSE rp' = r /\ Fail(1, "Invalid state")

command_microphone_led(state) ==
    /\ Enter("microphone_led", <<state>>)
    /\ LET i == dualsense_init_output_report(ds)
           r == SetCommon(i.rp, "valid_flag1",
                          DS_OUTPUT_VALID_FLAG1_MIC_MUTE_LED_CONTROL_ENABLE)
       IN /\ ds' = i.ds
          /\ IF state = "on" THEN ToSend(SetCommon(r, "mute_button_led", 1))
             ELSE IF state = "off" THEN ToSend(SetCommon(r, "mute_button_led", 0))
             ELSE rp' = r /\ Fail(1, "Invalid state")

command_speaker(state) ==
    /\ Enter("speaker", <<state>>)
    /\ LET i == dualsense_init_output_report(ds)
           r == SetCommon(i.rp, "valid_flag0", DS_OUTPUT_VALID_FLAG0_AUDIO_CONTROL_ENABLE)
       IN /\ ds' = i.ds
          /\ IF state = "internal"
             THEN ToSend(SetCommon(r, "audio_flags", Shl(3, DS_OUTPUT_AUDIO_OUTPUT_PATH_SHIFT)))
             ELSE IF state = "headphone"
             THEN ToSend(SetCommon(r, "audio_flags", 0))
             ELSE IF state = "monoheadphone"
             THEN ToSend(SetCommon(r, "audio_flags", Shl(1, DS_OUTPUT_AUDIO_OUTPUT_PATH_SHIFT)))
             ELSE IF state = "both"
             THEN ToSend(SetCommon(r, "audio_flags", Shl(2, DS_OUTPUT_AUDIO_OUTPUT_PATH_SHIFT)))
             ELSE rp' = r /\ Fail(1, "Invalid state")

\* command_volume assigning the speaker flag instead of or-ing it in
command_volume_FlagAssigned(volume) ==
    /\ Enter("volume", <<volume>>)
    /\ LET i == dualsense_init_output_report(ds)
           max_volume == 255
           r0 == SetCommon(i.rp, "valid_flag0", DS_OUTPUT_VALID_FLAG0_HEADPHONE_VOLUME_ENABLE)
           r1 == SetCommon(r0, "headphone_audio_volume", (volume * 127) \div max_volume)
           r2 == SetCommon(r1, "valid_flag0", DS_OUTPUT_VALID_FLAG0_SPEAKER_VOLUME_ENABLE)
           r3 == SetCommon(r2, "speaker_audio_volume", (volume * 100) \div max_volume)
       IN /\ ds' = i.ds
          /\ ToSend(r3)

command_volume(volume) ==
    /\ Enter("volume", <<volume>>)
    /\ LET i == dualsense_init_output_report(ds)
           max_volume == 255
           r0 == SetCommon(i.rp, "valid_flag0", DS_OUTPUT_VALID_FLAG0_HEADPHONE_VOLUME_ENABLE)
           r1 == SetCommon(r0, "headphone_audio_volume", (volume * 127) \div max_volume)
           r2 == SetCommon(r1, "valid_flag0",
                           BitOr(GetCommon(r1, "valid_flag0"),
                                 DS_OUTPUT_VALID_FLAG0_SPEAKER_VOLUME_ENABLE))
           r3 == SetCommon(r2, "speaker_audio_volume", (volume * 100) \div max_volume)
       IN /\ ds' = i.ds
          /\ ToSend(r3)

command_vibration_attenuation(rumble_attenuation, trigger_attenuation) ==
    /\ Enter("attenuation", <<rumble_attenuation, trigger_attenuation>>)
    /\ LET i == dualsense_init_output_report(ds)
           r0 == SetCommon(i.rp, "valid_flag1",
                           DS_OUTPUT_VALID_FLAG1_VIBRATION_ATTENUATION_ENABLE)
           r1 == SetCommon(r0, "reduce_motor_power",
                           BitOr(BitAnd(rumble_attenuation, 7),
                                 Shl(BitAnd(trigger_attenuation, 7), 4)))
       IN /\ ds' = i.ds
          /\ ToSend(r1)

\* right_trigger_param[0..8] = param1..param9 (and the same for the left)
RECURSIVE SetTriggerParams(_, _, _, _)
SetTriggerParams(r, field, params, n) ==
    IF n = 0 THEN r
    ELSE SetCommonAt(SetTriggerParams(r, field, params, n - 1), field, n - 1, params[n])

\* TriggerReport with the left enable bit assigned (=) instead of or-ed (|=)
TriggerReport_LeftAssigned(r, trigger, mode, params) ==
    LET r0 == IF trigger = "right" \/ trigger = "both"
              THEN SetCommon(r, "valid_flag0", DS_OUTPUT_VALID_FLAG0_RIGHT_TRIGGER_MOTOR_ENABLE)
              ELSE r
        r1 == IF trigger = "left" \/ trigger = "both"
              THEN SetCommon(r0, "valid_flag0",
                             DS_OUTPUT_VALID_FLAG0_LEFT_TRIGGER_MOTOR_ENABLE)
              ELSE r0
        r2 == SetCommon(r1, "right_trigger_motor_mode", mode)
        r3 == SetTriggerParams(r2, "right_trigger_param", params, 9)
        r4 == SetCommon(r3, "left_trigger_motor_mode", mode)
        r5 == SetTriggerParams(r4, "left_trigger_param", params, 9)
    IN r5

\* the body of command_trigger up to dualsense_send_output_report
TriggerReport(r, trigger, mode, params) ==
    LET r0 == IF trigger = "right" \/ trigger = "both"
              THEN SetCommon(r, "valid_flag0", DS_OUTPUT_VALID_FLAG0_RIGHT_TRIGGER_MOTOR_ENABLE)
              ELSE r
        r1 == IF trigger = "left" \/ trigger = "both"
              THEN SetCommon(r0, "valid_flag0",
                             BitOr(GetCommon(r0, "valid_flag0"),
                                   DS_OUTPUT_VALID_FLAG0_LEFT_TRIGGER_MOTOR_ENABLE))
              ELSE r0
        r2 == SetCommon(r1, "right_trigger_motor_mode", mode)
        r3 == SetTriggerParams(r2, "right_trigger_param", params, 9)
        r4 == SetCommon(r3, "left_trigger_motor_mode", mode)
        r5 == SetTriggerParams(r4, "left_trigger_param", params, 9)
    IN r5

\* command_trigger as a trigger effect calls it (return command_trigger(...)),
\* after printing the lines printed on stdout
CallTrigger(trigger, mode, params, printed) ==
    LET i == dualsense_init_output_report(ds)
    IN /\ ds' = i.ds
       /\ ToSendPrinted(TriggerReport(i.rp, trigger, mode, params), printed)

command_trigger(trigger, mode, params) ==
    /\ Enter("trigger", <<trigger, mode, params>>)
    /\ CallTrigger(trigger, mode, params, <<>>)

(***************************************************************************)
(* The trigger effects.  Each validates its arguments, computes the nine   *)
(* parameter bytes and returns command_trigger(...).                       *)
(***************************************************************************)
\* fprintf(stderr, message); return 1; before any report is built
Reject(message) ==
    /\ rp' = NoReport
    /\ ds' = ds
    /\ Fail(1, message)

command_trigger_off(trigger) ==
    /\ Enter("trigger_off", <<trigger>>)
    /\ CallTrigger(trigger, DS_TRIGGER_EFFECT_OFF, <<0, 0, 0, 0, 0, 0, 0, 0, 0>>, <<>>)

\* trigger_bitpacking_array with every strength slot 4 bits wide
RECURSIVE PackZones_Wide(_, _)
PackZones_Wide(strength, n) ==
    IF n = 0 THEN [strength_zones |-> 0, active_zones |-> 0]
    ELSE LET z == PackZones_Wide(strength, n - 1)
             i == n - 1
         IN IF strength[n] > 0
            THEN LET strength_value == U8(BitAnd(strength[n] - 1, 7))
                 IN [strength_zones |->
                         BitOr(z.strength_zones, Shl(strength_value, (4 * i) % 28)),
                     active_zones |-> U16(BitOr(z.active_zones, Shl(1, i)))]
            ELSE z

\* the loop of trigger_bitpacking_array over strength[0..n-1], no entry being
\* above 8: strength_zones and active_zones
RECURSIVE PackZones(_, _)
PackZones(strength, n) ==
    IF n = 0 THEN [strength_zones |-> 0, active_zones |-> 0]
    ELSE LET z == PackZones(strength, n - 1)
             i == n - 1
         IN IF strength[n] > 0
            THEN LET strength_value == U8(BitAnd(strength[n] - 1, 7))
                 IN [strength_zones |->
                         BitOr(z.strength_zones, Shl(strength_value, 3 * i)),
                     active_zones |-> U16(BitOr(z.active_zones, Shl(1, i)))]
            ELSE z

\* (uint8_t)((x >> n) & 0xff)
ByteAt(x, n) == U8(BitAnd(Shr(x, n), 255))

\* the nine parameters trigger_bitpacking_array passes to command_trigger
BitpackParams(strength, frequency) ==
    LET z == PackZones(strength, 10)
    IN <<ByteAt(z.active_zones, 0), ByteAt(z.active_zones, 8),
         ByteAt(z.strength_zones, 0), ByteAt(z.strength_zones, 8),
         ByteAt(z.strength_zones, 16), ByteAt(z.strength_zones, 24),
         0, 0, frequency>>

trigger_bitpacking_array(trigger, mode, strength, frequency) ==
    IF \E i \in 1..10 : strength[i] > 8
    THEN Reject("strengths must be between 0 and 8")
    ELSE CallTrigger(trigger, mode, BitpackParams(strength, frequency), <<>>)

\* uint8_t strength_array[10] = {0}; for (i = position; i < 10; i++) strength_array[i] = strength
StrengthArray(position, strength) ==
    [i \in 1..10 |-> IF i - 1 >= position THEN strength ELSE 0]

\* (uint16_t)((1 << start_position) | (1 << end_position))
StartStopZones(start_position, end_position) ==
    U16(BitOr(Shl(1, start_position), Shl(1, end_position)))

\* (uint16_t)((low & 0x07) | ((high & 0x07) << 3))
Pair3(low, high) == U16(BitOr(BitAnd(low, 7), Shl(BitAnd(high, 7), 3)))

\* command_trigger_feedback accepting strength 0
FeedbackAccepted_ZeroStrength(position, strength) ==
    ~(position > 9) /\ ~(strength > 8)

\* the checks of command_trigger_feedback pass
FeedbackAccepted(position, strength) ==
    ~(position > 9) /\ ~(strength > 8 \/ ~(strength > 0))

command_trigger_feedback(trigger, position, strength) ==
    /\ Enter("trigger_feedback", <<trigger, position, strength>>)
    /\ IF position > 9
       THEN Reject("position must be between 0 and 9")
       ELSE IF ~FeedbackAccepted(position, strength)
       THEN Reject("strength must be between 1 and 8")
       ELSE trigger_bitpacking_array(trigger, DS_TRIGGER_EFFECT_FEEDBACK,
                                     StrengthArray(position, strength), 0)

\* the parameters of command_trigger_weapon with the strength passed as given
WeaponParams_RawStrength(start_position, end_position, strength) ==
    LET start_stop_zones == StartStopZones(start_position, end_position)
    IN <<ByteAt(start_stop_zones, 0), ByteAt(start_stop_zones, 8),
         U8(strength), 0, 0, 0, 0, 0, 0>>

WeaponParams(start_position, end_position, strength) ==
    LET start_stop_zones == StartStopZones(start_position, end_position)
    IN <<ByteAt(start_stop_zones, 0), ByteAt(start_stop_zones, 8),
         U8(strength - 1), 0, 0, 0, 0, 0, 0>>

command_trigger_weapon(trigger, start_position, end_position, strength) ==
    /\ Enter("trigger_weapon", <<trigger, start_position, end_position, strength>>)
    /\ IF start_position > 7 \/ start_position < 2
       THEN Reject("start position must be between 2 and 7")
       ELSE IF end_position > 8 \/ end_position < start_position + 1
       THEN Reject("end position must be between start position+1 and 8")
       ELSE IF strength > 8 \/ ~(strength > 0)
       THEN Reject("strength must be between 1 and 8")
       ELSE CallTrigger(trigger, DS_TRIGGER_EFFECT_WEAPON,
                        WeaponParams(start_position, end_position, strength), <<>>)

BowParams(start_position, end_position, strength, snap_force) ==
    LET start_stop_zones == StartStopZones(start_position, end_position)
        force_pair == Pair3(strength - 1, snap_force - 1)
    IN <<ByteAt(start_stop_zones, 0), ByteAt(start_stop_zones, 8),
         ByteAt(force_pair, 0), 0, 0, 0, 0, 0, 0>>

command_trigger_bow(trigger, start_position, end_position, strength, snap_force) ==
    /\ Enter("trigger_bow", <<trigger, start_position, end_position, strength, snap_force>>)
    /\ IF start_position > 8 \/ ~(start_position > 0)
       THEN Reject("start position must be between 0 and 8")
       ELSE IF end_position > 8 \/ end_position < start_position + 1
       THEN Reject("end position must be between start position+1 and 8")
       ELSE IF strength > 8 \/ ~(strength > 0)
       THEN Reject("strength must be between 1 and 8")
       ELSE IF snap_force > 8 \/ ~(snap_force > 0)
       THEN Reject("snap_force must be between 1 and 8")
       ELSE CallTrigger(trigger, DS_TRIGGER_EFFECT_BOW,
                        BowParams(start_position, end_position, strength, snap_force),
                        <<>>)

\* the parameters of command_trigger_galloping with the two feet swapped
GallopingParams_FeetSwapped(start_position, end_position, first_foot, second_foot, frequency) ==
    LET start_stop_zones == StartStopZones(start_position, end_position)
        ratio == Pair3(first_foot, second_foot)
    IN <<ByteAt(start_stop_zones, 0), ByteAt(start_stop_zones, 8),
         ByteAt(ratio, 0), frequency, 0, 0, 0, 0, 0>>

GallopingParams(start_position, end_position, first_foot, second_foot, frequency) ==
    LET start_stop_zones == StartStopZones(start_position, end_position)
        ratio == Pair3(second_foot, first_foot)
    IN <<ByteAt(start_stop_zones, 0), ByteAt(start_stop_zones, 8),
         ByteAt(ratio, 0), frequency, 0, 0, 0, 0, 0>>

command_trigger_galloping(trigger, start_position, end_position, first_foot, second_foot, frequency) ==
    /\ Enter("trigger_galloping",
             <<trigger, start_position, end_position, first_foot, second_foot, frequency>>)
    /\ IF start_position > 8
       THEN Reject("start position must be between 0 and 8")
       ELSE IF end_position > 9 \/ end_position < start_position + 1
       THEN Reject("end position must be between start position+1 and 9")
       ELSE IF first_foot > 6
       THEN Reject("first_foot must be between 0 and 8")
       ELSE IF second_foot > 7 \/ second_foot < first_foot + 1
       THEN Reject("second_foot must be between first_foot+1 and 8")
       ELSE IF ~(frequency > 0)
       THEN Reject("frequency must be greater than 0")
       ELSE CallTrigger(trigger, DS_TRIGGER_EFFECT_GALLOPING,
                        GallopingParams(start_position, end_position, first_foot,
                                        second_foot, frequency),
                        IF frequency > 8
                        THEN <<"frequency has a better effect when lower than 8">>
                        ELSE <<>>)

\* command_trigger_machine leaving the period byte out
MachineParams_NoPeriod(start_position, end_position, strength_a, strength_b, frequency, period) ==
    LET start_stop_zones == StartStopZones(start_position, end_position)
        force_pair == Pair3(strength_a, strength_b)
    IN <<ByteAt(start_stop_zones, 0), ByteAt(start_stop_zones, 8),
         ByteAt(force_pair, 0), frequency, 0, 0, 0, 0, 0>>

MachineParams(start_position, end_position, strength_a, strength_b, frequency, period) ==
    LET start_stop_zones == StartStopZones(start_position, end_position)
        force_pair == Pair3(strength_a, strength_b)
    IN <<ByteAt(start_stop_zones, 0), ByteAt(start_stop_zones, 8),
         ByteAt(force_pair, 0), frequency, period, 0, 0, 0, 0>>

command_trigger_machine(trigger, start_position, end_position, strength_a, strength_b, frequency, period) ==
    /\ Enter("trigger_machine",
             <<trigger, start_position, end_position, strength_a, strength_b, frequency,
               period>>)
    /\ IF start_position > 8 \/ ~(start_position > 0)
       THEN Reject("start position must be between 1 and 8")
       ELSE IF end_position > 9 \/ end_position < start_position + 1
       THEN Reject("end position must be between start position+1 and 9")
       ELSE IF strength_a > 7
       THEN Reject("strength_a position must be between 0 and 7")
       ELSE IF strength_b > 7
       THEN Reject("strength_b position must be between 0 and 7")
       ELSE IF ~(frequency > 0)
       THEN Reject("frequency must be greater than 0")
       ELSE CallTrigger(trigger, DS_TRIGGER_EFFECT_MACHINE,
                        MachineParams(start_position, end_position, strength_a,
                                      strength_b, frequency, period), <<>>)

\* command_trigger_vibration accepting frequency 0
VibrationAccepted_AnyFrequency(position, amplitude, frequency) ==
    ~(position > 9) /\ ~(amplitude > 8 \/ ~(amplitude > 0))

\* the checks of command_trigger_vibration pass
VibrationAccepted(position, amplitude, frequency) ==
    ~(position > 9) /\ ~(amplitude > 8 \/ ~(amplitude > 0)) /\ frequency > 0

command_trigger_vibration(trigger, position, amplitude, frequency) ==
    /\ Enter("trigger_vibration", <<trigger, position, amplitude, frequency>>)
    /\ IF position > 9
       THEN Reject("position must be between 0 and 9")
       ELSE IF amplitude > 8 \/ ~(amplitude > 0)
       THEN Reject("amplitude must be between 1 and 8")
       ELSE IF ~VibrationAccepted(position, amplitude, frequency)
       THEN Reject("frequency must be greater than 0")
       ELSE trigger_bitpacking_array(trigger, DS_TRIGGER_EFFECT_VIBRATION,
                                     StrengthArray(position, amplitude), frequency)

command_trigger_feedback_raw(trigger, strength) ==
    /\ Enter("trigger_feedback_raw", <<trigger, strength>>)
    /\ trigger_bitpacking_array(trigger, DS_TRIGGER_EFFECT_FEEDBACK, strength, 0)

command_trigger_vibration_raw(trigger, strength, frequency) ==
    /\ Enter("trigger_vibration_raw", <<trigger, strength, frequency>>)
    /\ trigger_bitpacking_array(trigger, DS_TRIGGER_EFFECT_VIBRATION, strength, frequency)

(***************************************************************************)
(* The read commands.                                                      *)
(***************************************************************************)
\* InputReportPayload with data[0] not compared
InputReportPayload_AnyId(bt, data, res) ==
    IF ~bt /\ res = DS_INPUT_REPORT_USB_SIZE THEN 1
    ELSE IF bt /\ res = DS_INPUT_REPORT_BT_SIZE THEN 2
    ELSE -1

\* the input report's payload: &data[1] on USB, &data[2] on Bluetooth,
\* -1 for the "Unhandled report ID" branch
InputReportPayload(bt, data, res) ==
    IF ~bt /\ data[1] = DS_INPUT_REPORT_USB /\ res = DS_INPUT_REPORT_USB_SIZE THEN 1
    ELSE IF bt /\ data[1] = DS_INPUT_REPORT_BT /\ res = DS_INPUT_REPORT_BT_SIZE THEN 2
    ELSE -1

\* ds_report->status of the report at data + payload
InputReportStatus(data, payload) ==
    data[payload + OffsetOf(dualsense_input_report, "status") + 1]

Min(a, b) == IF a < b THEN a ELSE b

\* BatteryState with the capacity not capped at 100
BatteryState_NoCap(status) ==
    LET battery_data == BitAnd(status, DS_STATUS_BATTERY_CAPACITY)
        charging_status == Shr(BitAnd(status, DS_STATUS_CHARGING), DS_STATUS_CHARGING_SHIFT)
    IN IF charging_status = 0
       THEN [capacity |-> U8(battery_data * 10 + 5), status |-> "discharging"]
       ELSE IF charging_status = 1
       THEN [capacity |-> U8(battery_data * 10 + 5), status |-> "charging"]
       ELSE IF charging_status = 2
       THEN [capacity |-> 100, status |-> "full"]
       ELSE IF charging_status = 10 \/ charging_status = 11
       THEN [capacity |-> 0, status |-> "not-charging"]
       ELSE [capacity |-> 0, status |-> "unknown"]

\* the switch on charging_status: battery_capacity and battery_status
BatteryState(status) ==
    LET battery_data == BitAnd(status, DS_STATUS_BATTERY_CAPACITY)
        charging_status == Shr(BitAnd(status, DS_STATUS_CHARGING), DS_STATUS_CHARGING_SHIFT)
    IN IF charging_status = 0
       THEN [capacity |-> U8(Min(battery_data * 10 + 5, 100)), status |-> "discharging"]
       ELSE IF charging_status = 1
       THEN [capacity |-> U8(Min(battery_data * 10 + 5, 100)), status |-> "charging"]
       ELSE IF charging_status = 2
       THEN [capacity |-> 100, status |-> "full"]
       ELSE IF charging_status = 10 \/ charging_status = 11
       THEN [capacity |-> 0, status |-> "not-charging"]
       ELSE [capacity |-> 0, status |-> "unknown"]

\* BatteryResult with a timeout taken for success
BatteryResult_TimeoutIgnored(bt, data, res) ==
    IF res < 0
    THEN [ret |-> 2, out |-> <<>>, err |-> <<"Failed to read report">>]
    ELSE IF res = 0
    THEN [ret |-> 0, out |-> <<>>, err |-> <<>>]
    ELSE LET payload == InputReportPayload(bt, data, res)
         IN IF payload < 0
            THEN [ret |-> 3, out |-> <<>>, err |-> <<"Unhandled report ID">>]
            ELSE [ret |-> 0, out |-> <<BatteryState(InputReportStatus(data, payload))>>,
                  err |-> <<>>]

\* what command_battery does with the result of its hid_read_timeout:
\* the return value and the lines on stdout and stderr
BatteryResult(bt, data, res) ==
    IF res <= 0
    THEN [ret |-> 2, out |-> <<>>,
          err |-> IF res = 0 THEN <<"Timeout waiting for report">>
                  ELSE <<"Failed to read report">>]
    ELSE LET payload == InputReportPayload(bt, data, res)
         IN IF payload < 0
            THEN [ret |-> 3, out |-> <<>>, err |-> <<"Unhandled report ID">>]
            ELSE [ret |-> 0, out |-> <<BatteryState(InputReportStatus(data, payload))>>,
                  err |-> <<>>]

\* read is what hid_read_timeout(ds->dev, data, sizeof(data), 1000) gives:
\* res, and the res bytes it put in data
command_battery(read) ==
    /\ Enter("battery", <<>>)
    /\ hid' = <<[fn |-> "hid_read_timeout", size |-> DS_INPUT_REPORT_BT_SIZE,
                 ms |-> 1000, res |-> read.res, data |-> read.data]>>
    /\ LET b == BatteryResult(ds.bt, read.data, read.res)
       IN ret' = b.ret /\ out' = b.out /\ err' = b.err
    /\ rp' = NoReport
    /\ pc' = "idle"
    /\ UNCHANGED <<ds, wire_seq>>

\* the fields command_info prints from a firmware report
FirmwareFields ==
    <<"Hardware", "Build date", "Firmware", "Fw version", "Sw series", "Update version">>

\* the int a "return false" gives
ReturnFalse == 0

\* what command_info does with the result of its hid_get_feature_report
InfoResult(res) ==
    IF res # DS_FEATURE_REPORT_FIRMWARE_INFO_SIZE
    THEN [ret |-> ReturnFalse, out |-> <<>>, err |-> <<"Invalid feature report">>]
    ELSE [ret |-> 0, out |-> FirmwareFields, err |-> <<>>]

\* command_info taking a sequence number as the write commands do
command_info_Counting(res) ==
    /\ Enter("info", <<>>)
    /\ hid' = <<[fn |-> "hid_get_feature_report", id |-> DS_FEATURE_REPORT_FIRMWARE_INFO,
                 size |-> DS_FEATURE_REPORT_FIRMWARE_INFO_SIZE, res |-> res]>>
    /\ LET f == InfoResult(res)
       IN ret' = f.ret /\ out' = f.out /\ err' = f.err
    /\ rp' = NoReport
    /\ pc' = "idle"
    /\ ds' = dualsense_init_output_report(ds).ds
    /\ UNCHANGED wire_seq

\* res is what hid_get_feature_report(ds->dev, buf, sizeof(buf)) returns
command_info(res) ==
    /\ Enter("info", <<>>)
    /\ hid' = <<[fn |-> "hid_get_feature_report", id |-> DS_FEATURE_REPORT_FIRMWARE_INFO,
                 size |-> DS_FEATURE_REPORT_FIRMWARE_INFO_SIZE, res |-> res]>>
    /\ LET f == InfoResult(res)
       IN ret' = f.ret /\ out' = f.out /\ err' = f.err
    /\ rp' = NoReport
    /\ pc' = "idle"
    /\ UNCHANGED <<ds, wire_seq>>

\* main: a command given the wrong number of arguments
main_invalid_arguments ==
    /\ Enter("usage", <<>>)
    /\ rp' = NoReport
    /\ Fail(2, "Invalid arguments")
    /\ UNCHANGED ds

\* dualsense_destroy: hid_close(ds->dev)
dualsense_destroy(d) == [d EXCEPT !.dev = "closed"]

\* main: return command_...(&ds, ...), or return 2 after "Invalid arguments":
\* every branch of the dispatch on argv[1] ends in a return statement, so the
\* process ends there with the command's status; the statements that follow
\* the dispatch (dualsense_destroy(&ds); return 0;) are reached from no branch
main_return ==
    /\ pc = "idle"
    /\ ncmd > 0
    /\ pc' = "exit"
    /\ UNCHANGED <<ds, rp, cmd, args, ret, out, err, hid, wire_seq, ncmd, monitor>>

(***************************************************************************)
(* command_monitor.  monitor.event lists the devices and udev events taken *)
(* so far, the devices found by the enumeration at start as "add";         *)
(* child[k] and grandchild[k] are the processes forked for the k-th:       *)
(* "none" (not forked), "failed" (fork failed), "start", "system" (running *)
(* the hook in system()), "exited", and for a child "reaped" by waitpid.   *)
(* monitor.pc is "poll" between two of them, "waitpid" in run_sh_command's *)
(* waitpid, "returned" after command_monitor's return.                     *)
(***************************************************************************)
\* the session variables of a process that runs the monitor: main calls
\* command_monitor before it declares or opens a session
NoSession == [dev |-> "none", bt |-> FALSE, output_seq |-> 0, mac_address |-> ""]

\* the monitor's steps leave the session variables alone
MonitorStep == UNCHANGED <<ds, rp, pc, cmd, args, ret, out, err, hid, wire_seq, ncmd>>

\* run_sh_command in the monitor: fork(), then perror("fork") if it failed,
\* else on to waitpid(pid, &status, 0)
run_sh_command(action, forked) ==
    monitor' = [monitor EXCEPT !.event = Append(@, action),
                               !.child = Append(@, IF forked THEN "start" ELSE "failed"),
                               !.grandchild = Append(@, "none"),
                               !.pc = IF forked THEN "waitpid" ELSE "poll"]

\* add_device / remove_device returning without run_sh_command
NoCommand(action) ==
    monitor' = [monitor EXCEPT !.event = Append(@, action),
                               !.child = Append(@, "none"),
                               !.grandchild = Append(@, "none")]

\* add_device, for a device of the enumeration or an "add" event; hooked is
\* check_dualsense_device(dev, serial_number) && sh_command_add
add_device(hooked) ==
    /\ monitor.pc = "poll"
    /\ Len(monitor.event) < MaxEvents
    /\ IF hooked
       THEN \E forked \in BOOLEAN : run_sh_command("add", forked)
       ELSE NoCommand("add")
    /\ MonitorStep

\* remove_device, for a "remove" event; hooked is
\* check_dualsense_device(dev, serial_number) && sh_command_remove
remove_device(hooked) ==
    /\ monitor.pc = "poll"
    /\ Len(monitor.event) < MaxEvents
    /\ IF hooked
       THEN \E forked \in BOOLEAN : run_sh_command("remove", forked)
       ELSE NoCommand("remove")
    /\ MonitorStep

\* the child forking whatever sh_command_wait is
ChildForks_Always(wait) == TRUE

\* if (!sh_command_wait) pid = fork();
ChildForks(wait) == ~wait

\* the child of run_sh_command (pid == 0): with sh_command_wait it goes on to
\* system(command) itself; without, it forks, the grandchild goes on to
\* system(command) and the child exits (exit(0), or exit(1) after
\* perror("fork") when the fork failed)
run_sh_command_child(k) ==
    /\ monitor.child[k] = "start"
    /\ IF ChildForks(monitor.sh_command_wait)
       THEN \E forked \in BOOLEAN :
              monitor' = [monitor EXCEPT
                            !.grandchild[k] = IF forked THEN "system" ELSE "failed",
                            !.child[k] = "exited"]
       ELSE monitor' = [monitor EXCEPT !.child[k] = "system"]
    /\ MonitorStep

\* system(command) returns in the process that ran the hook; exit(1)
run_sh_command_exit(k) ==
    /\ monitor.child[k] = "system" \/ monitor.grandchild[k] = "system"
    /\ monitor' = IF monitor.child[k] = "system"
                  THEN [monitor EXCEPT !.child[k] = "exited"]
                  ELSE [monitor EXCEPT !.grandchild[k] = "exited"]
    /\ MonitorStep

\* waitpid(pid, &status, 0) returns in the monitor: the child has exited
run_sh_command_waitpid ==
    /\ monitor.pc = "waitpid"
    /\ monitor.child[Len(monitor.child)] = "exited"
    /\ monitor' = [monitor EXCEPT !.child[Len(monitor.child)] = "reaped", !.pc = "poll"]
    /\ MonitorStep

\* poll fails: perror("poll"); break; return 0
command_monitor_return ==
    /\ monitor.pc = "poll"
    /\ monitor' = [monitor EXCEPT !.pc = "returned"]
    /\ MonitorStep

(***************************************************************************)
(* The arguments and transport results the commands are run on.            *)
(***************************************************************************)
OnOffStates == {"on", "off", "toggle"}
SpeakerStates == {"internal", "headphone", "monoheadphone", "both", "mute"}
TriggerSides == {"left", "right", "both"}
ColourSamples == {<<0, 0, 0>>, <<255, 128, 1>>}
BrightnessSamples == {128, 255}
VolumeSamples == {0, 128, 255}
AttenuationSamples == {<<0, 0>>, <<7, 1>>, <<2, 5>>}
TriggerModeSamples == {DS_TRIGGER_EFFECT_OFF, 33}
TriggerParamSamples == {<<1, 2, 3, 4, 5, 6, 7, 8, 9>>}

\* trigger effects run on a session that runs other commands too: for each
\* effect one argument list that is accepted and one that is rejected
FeedbackSamples == {<<"right", 3, 5>>, <<"left", 3, 0>>}
WeaponSamples == {<<"both", 2, 8, 8>>, <<"right", 1, 8, 8>>}
BowSamples == {<<"left", 1, 8, 8, 1>>, <<"right", 0, 1, 1, 1>>}
GallopingSamples == {<<"both", 0, 9, 6, 7, 9>>, <<"left", 0, 9, 6, 7, 0>>}
MachineSamples == {<<"right", 1, 9, 7, 0, 1, 2>>, <<"left", 0, 9, 7, 0, 1, 2>>}
VibrationSamples == {<<"left", 9, 8, 255>>, <<"both", 9, 8, 0>>}
RawStrengthSamples == {<<8, 7, 6, 5, 4, 3, 2, 1, 0, 8>>, <<0, 0, 0, 0, 0, 0, 0, 0, 0, 9>>}
RawFrequencySamples == {0, 40}

\* the arguments the trigger effects are run on when run alone
Positions == 0..MaxPosition
Strengths == 0..MaxStrength
\* a uint8_t frequency or period: rejected, smallest, around the logged
\* threshold, largest
FrequencySamples == {0, 1, 8, 9, 255}
FootFrequencySamples == {0, 1, 9}
\* feet: the lowest two, the highest accepted as first and as second foot,
\* the highest tried
FootSamples == {0, 1, 6, 7, MaxFoot}
RawFrequencies == {0, 1, 255}
SnapForceSamples == {0, 1, 4, 8, MaxStrength}
MachineStrengthSamples == {0, 7, 8}
PeriodSamples == {0, 255}

\* strength[10]: one value everywhere; one zone at any strength; two zones at
\* the lowest, the highest accepted or the highest tried strength
RawStrengthArrays ==
    LET edge == {1, 8, MaxStrength}
    IN {[i \in 1..10 |-> v] : v \in Strengths}
       \cup {[i \in 1..10 |-> IF i = a THEN v ELSE 0] : a \in 1..10, v \in 1..MaxStrength}
       \cup {[i \in 1..10 |-> IF i = a THEN v ELSE IF i = b THEN w ELSE 0] :
               a \in 1..10, b \in 1..10, v \in edge, w \in edge}
       \cup {[i \in 1..10 |-> (i * 3) % 9], [i \in 1..10 |-> 9 - ((i * 5) % 9)]}
StatusSamples == {5 + 21 * k : k \in 0..(MaxStatusSamples - 1)}

\* byte counts a read of at most size bytes is tried with
ReadCounts(size) ==
    {n \in (1..MaxShortRead) \cup
           {DS_INPUT_REPORT_USB_SIZE - 1, DS_INPUT_REPORT_USB_SIZE,
            DS_INPUT_REPORT_BT_SIZE - 1, DS_INPUT_REPORT_BT_SIZE} : n <= size}

InputReportIds == {0, DS_INPUT_REPORT_USB, DS_INPUT_REPORT_BT}

\* res received bytes: report id, then zeros but for the byte that is the
\* status of a USB report (usb_status) and the one that is the status of a
\* Bluetooth report (bt_status)
InputData(id, res, usb_status, bt_status) ==
    LET usb_at == 1 + OffsetOf(dualsense_input_report, "status") + 1
        bt_at == 2 + OffsetOf(dualsense_input_report, "status") + 1
    IN [i \in 1..res |->
          IF i = 1 THEN id
          ELSE IF i = usb_at THEN usb_status
          ELSE IF i = bt_at THEN bt_status
          ELSE 0]

\* outcomes of hid_read_timeout: an error, a timeout, or res bytes
HidReads(counts, ids, usb_statuses, bt_statuses) ==
    {[res |-> -1, data |-> <<>>], [res |-> 0, data |-> <<>>]}
    \cup {[res |-> n, data |-> InputData(id, n, s, t)] :
            n \in counts, id \in ids, s \in usb_statuses, t \in bt_statuses}

\* outcomes of hid_get_feature_report for the firmware report
HidFeatureResults ==
    {-1} \cup ReadCounts(DS_FEATURE_REPORT_FIRMWARE_INFO_SIZE)

\* the reads the battery command is run on
BatteryReads ==
    HidReads(ReadCounts(DS_INPUT_REPORT_BT_SIZE), InputReportIds, StatusSamples, StatusSamples)

Next ==
    \/ \E state \in OnOffStates : command_lightbar1(state)
    \/ \E c \in ColourSamples, b \in BrightnessSamples : command_lightbar3(c[1], c[2], c[3], b)
    \/ \E number \in 0..MaxPlayerNumber : command_player_leds(number)
    \/ \E state \in OnOffStates : command_microphone(state)
    \/ \E state \in OnOffStates : command_microphone_led(state)
    \/ \E state \in SpeakerStates : command_speaker(state)
    \/ \E volume \in VolumeSamples : command_volume(volume)
    \/ \E a \in AttenuationSamples : command_vibration_attenuation(a[1], a[2])
    \/ \E t \in TriggerSides, mode \in TriggerModeSamples, params \in TriggerParamSamples :
         command_trigger(t, mode, params)
    \/ \E t \in TriggerSides : command_trigger_off(t)
    \/ \E a \in FeedbackSamples : command_trigger_feedback(a[1], a[2], a[3])
    \/ \E a \in WeaponSamples : command_trigger_weapon(a[1], a[2], a[3], a[4])
    \/ \E a \in BowSamples : command_trigger_bow(a[1], a[2], a[3], a[4], a[5])
    \/ \E a \in GallopingSamples :
         command_trigger_galloping(a[1], a[2], a[3], a[4], a[5], a[6])
    \/ \E a \in MachineSamples :
         command_trigger_machine(a[1], a[2], a[3], a[4], a[5], a[6], a[7])
    \/ \E a \in VibrationSamples : command_trigger_vibration(a[1], a[2], a[3], a[4])
    \/ \E t \in {"right"}, strength \in RawStrengthSamples :
         command_trigger_feedback_raw(t, strength)
    \/ \E t \in {"left"}, strength \in RawStrengthSamples, f \in RawFrequencySamples :
         command_trigger_vibration_raw(t, strength, f)
    \/ \E read \in BatteryReads : command_battery(read)
    \/ \E res \in HidFeatureResults : command_info(res)
    \/ main_invalid_arguments
    \/ SendOutputReport

Spec == Init /\ [][Next]_vars

(***************************************************************************)
(* What the properties read off a state.                                   *)
(***************************************************************************)
\* the hid_write calls of the command running / last run
HidWrites == SelectSeq(hid, LAMBDA c : c.fn = "hid_write")

\* the step is dualsense_send_output_report handing the report to hid_write
Sends == pc = "send" /\ pc' = "idle"

\* the step is a whole command that returned without reaching a send
Returns == pc = "idle" /\ pc' = "idle" /\ ncmd' = ncmd + 1

\* stderr lines by the class of failure they report
ValidationErrors ==
    {"Invalid state", "Invalid player number",
     "strengths must be between 0 and 8",
     "position must be between 0 and 9",
     "strength must be between 1 and 8",
     "amplitude must be between 1 and 8",
     "snap_force must be between 1 and 8",
     "start position must be between 2 and 7",
     "start position must be between 0 and 8",
     "start position must be between 1 and 8",
     "end position must be between start position+1 and 8",
     "end position must be between start position+1 and 9",
     "first_foot must be between 0 and 8",
     "second_foot must be between first_foot+1 and 8",
     "strength_a position must be between 0 and 7",
     "strength_b position must be between 0 and 7",
     "frequency must be greater than 0"}
UsageErrors == {"Invalid arguments"}
TransportErrors == {"Error: hid_error", "Failed to read report"}
ProtocolErrors == {"Unhandled report ID", "Invalid feature report"}
TimeoutErrors == {"Timeout waiting for report"}

Reports(e, class) == \E i \in 1..Len(e) : e[i] \in class

InputFailure(e) == Reports(e, ValidationErrors \cup UsageErrors)
DeviceFailure(e) == Reports(e, TransportErrors \cup ProtocolErrors \cup TimeoutErrors)

(***************************************************************************)
(* C1.  On a Bluetooth session the reports given to hid_write carry the    *)
(* sequence nibbles 0, 1, 2, ..., 15, 0, ... in the high nibble of their   *)
(* second byte, whatever commands (rejected ones included) run in between: *)
(* the first one carries 0 and each report that is written carries the     *)
(* nibble of the one given to hid_write before it plus one, modulo 16.     *)
(***************************************************************************)
C1_SequenceNibbles ==
    [][(Sends /\ ds.bt /\ hid'[Len(hid')].res >= 0) =>
         LET w == hid'[Len(hid')]
         IN Shr(w.data[2], 4) = IF wire_seq = NoSeq THEN 0 ELSE (wire_seq[1] + 1) % 16]_vars

(***************************************************************************)
(* C2.  As claimed: every report given to hid_write is 64 bytes long on    *)
(* USB and 79 bytes long on Bluetooth, whatever the command.               *)
(***************************************************************************)
C2_Original ==
    \A i \in 1..Len(HidWrites) :
        /\ HidWrites[i].len = IF ds.bt THEN 79 ELSE 64
        /\ Len(HidWrites[i].data) = HidWrites[i].len

(***************************************************************************)
(* C2, amended.  Every report given to hid_write is 63 bytes long on USB   *)
(* and 78 bytes long on Bluetooth (report id included), whatever the       *)
(* command.                                                                *)
(***************************************************************************)
C2_ReportLength ==
    \A i \in 1..Len(HidWrites) :
        /\ HidWrites[i].len = IF ds.bt THEN 78 ELSE 63
        /\ Len(HidWrites[i].data) = HidWrites[i].len

C2_Witness ==
    /\ pc = "idle"
    /\ ds.bt
    /\ cmd = "trigger"
    /\ Len(HidWrites) = 1

(***************************************************************************)
(* C3.  When dualsense_send_output_report writes a Bluetooth report, the   *)
(* last 4 bytes written are ~crc32(crc32(0xFFFFFFFF, [0xA2]), B), low byte *)
(* first, where B is all the bytes written before them, and B is the       *)
(* buffer as the command left it; the buffer after the write is what was   *)
(* written.  On USB the buffer is written and left as the command built    *)
(* it.                                                                     *)
(***************************************************************************)
C3_BluetoothCrc ==
    [][Sends =>
         LET w == hid'[Len(hid')]
             n == rp.len
         IN /\ w.fn = "hid_write"
            /\ Len(w.data) = n
            /\ rp'.data = w.data
            /\ IF rp.bt
               THEN /\ SubSeq(w.data, 1, n - 4) = SubSeq(rp.data, 1, n - 4)
                    /\ SubSeq(w.data, n - 3, n) =
                         Not32(crc32_le(crc32_le(U32_ONES, <<162>>, 1), w.data, n - 4))
               ELSE /\ w.data = rp.data
                    /\ rp' = rp]_vars

C3_Witness ==
    /\ pc = "idle"
    /\ ds.bt
    /\ cmd = "lightbar3"
    /\ Len(HidWrites) = 1
    /\ SubSeq(HidWrites[1].data, 75, 78) # <<0, 0, 0, 0>>

(***************************************************************************)
(* C4.  A command rejected with a validation error does no transport I/O   *)
(* and leaves the session as it was: no hidapi call is made and the        *)
(* sequence counter is the same after the command as before it.            *)
(***************************************************************************)
C4_RejectedCommandIsInert ==
    [][(Returns /\ Reports(err', ValidationErrors)) =>
         /\ hid' = <<>>
         /\ ds'.output_seq = ds.output_seq]_vars

(***************************************************************************)
(* C5.  A write command whose hid_write failed (returned a negative value) *)
(* returns a non-zero status.                                              *)
(***************************************************************************)
C5_FailedWriteIsReported ==
    (pc = "idle" /\ \E i \in 1..Len(HidWrites) : HidWrites[i].res < 0) => ret # 0

(***************************************************************************)
(* C6.  Every command that ends in a validation or usage failure returns a *)
(* non-zero status, every command that ends in a transport, protocol or    *)
(* timeout failure returns a non-zero status, and of two commands run one  *)
(* after the other, one failing in the first way and one in the second,    *)
(* the statuses differ.                                                    *)
(***************************************************************************)
C6_ExitStatusClasses ==
    [][pc' = "idle" =>
         /\ (InputFailure(err') \/ DeviceFailure(err')) => ret' # 0
         /\ ((InputFailure(err) /\ DeviceFailure(err'))
             \/ (DeviceFailure(err) /\ InputFailure(err'))) => ret' # ret]_vars

(***************************************************************************)
(* C7.  command_info fails whenever hid_get_feature_report does not return *)
(* exactly 64: then it prints no firmware field and returns a non-zero     *)
(* status; a 64-byte reply is printed and returns 0.                       *)
(***************************************************************************)
C7_InfoLength ==
    (pc = "idle" /\ cmd = "info") =>
        IF hid[1].res = 64
        THEN ret = 0 /\ out = FirmwareFields
        ELSE ret # 0 /\ out = <<>>

(***************************************************************************)
(* C8.  command_battery accepts a received report exactly when its first   *)
(* byte and byte count match the session's transport: 0x01 and 64 bytes on *)
(* USB, where the status is read from the payload at data + 1; 0x31 and 78 *)
(* bytes on Bluetooth, payload at data + 2.  Any other report of one or    *)
(* more bytes ends with status 3 and no battery line.                      *)
(***************************************************************************)
C8_BatteryReportAccepted ==
    (pc = "idle" /\ cmd = "battery" /\ hid[1].res > 0) =>
        LET r == hid[1]
            status_at == OffsetOf(dualsense_input_report, "status")
        IN IF ~ds.bt /\ r.data[1] = 1 /\ r.res = 64
           THEN ret = 0 /\ out = <<BatteryState(r.data[1 + status_at + 1])>>
           ELSE IF ds.bt /\ r.data[1] = 49 /\ r.res = 78
           THEN ret = 0 /\ out = <<BatteryState(r.data[2 + status_at + 1])>>
           ELSE ret = 3 /\ out = <<>> /\ err = <<"Unhandled report ID">>

C8_Witness ==
    /\ pc = "idle"
    /\ cmd = "battery"
    /\ ds.bt
    /\ ret = 0
    /\ hid[1].data[54] # hid[1].data[55]
    /\ out = <<BatteryState(hid[1].data[55])>>
    /\ out # <<BatteryState(hid[1].data[54])>>

(***************************************************************************)
(* C9.  For the status byte s of an accepted report, with nibble = s & 0xF *)
(* and code = (s >> 4) & 0xF, command_battery prints: code 0 ->            *)
(* min(nibble * 10 + 5, 100) "discharging"; code 1 -> the same capacity,   *)
(* "charging"; code 2 -> 100 "full"; code 0xA or 0xB -> 0 "not-charging";  *)
(* any other code -> 0 "unknown".  The capacity is within 0..100.          *)
(***************************************************************************)
C9_BatteryMapping ==
    (pc = "idle" /\ cmd = "battery" /\ ret = 0) =>
        LET r == hid[1]
            s == r.data[(IF ds.bt THEN 2 ELSE 1) + 52 + 1]
            nibble == s % 16
            code == (s \div 16) % 16
            level == IF nibble * 10 + 5 < 100 THEN nibble * 10 + 5 ELSE 100
        IN /\ Len(out) = 1
           /\ out[1].capacity \in 0..100
           /\ code = 0 => out[1] = [capacity |-> level, status |-> "discharging"]
           /\ code = 1 => out[1] = [capacity |-> level, status |-> "charging"]
           /\ code = 2 => out[1] = [capacity |-> 100, status |-> "full"]
           /\ code \in {10, 11} => out[1] = [capacity |-> 0, status |-> "not-charging"]
           /\ code \notin {0, 1, 2, 10, 11} => out[1] = [capacity |-> 0, status |-> "unknown"]

C9_Witness ==
    /\ pc = "idle"
    /\ cmd = "battery"
    /\ ret = 0
    /\ ~ds.bt
    /\ hid[1].data[54] = 5
    /\ out = <<[capacity |-> 55, status |-> "discharging"]>>

(***************************************************************************)
(* C10.  command_battery makes exactly one hidapi call, a read of at most  *)
(* 78 bytes bounded by 1000 ms.  If it returns 0 the command ends with the *)
(* timeout failure, if it returns a negative value with the read failure;  *)
(* in both cases the status is non-zero and no battery line is printed.    *)
(***************************************************************************)
C10_BatteryRead ==
    (pc = "idle" /\ cmd = "battery") =>
        /\ Len(hid) = 1
        /\ hid[1].fn = "hid_read_timeout"
        /\ hid[1].ms = 1000
        /\ hid[1].size = 78
        /\ hid[1].res = 0 =>
             ret # 0 /\ out = <<>> /\ err = <<"Timeout waiting for report">>
        /\ hid[1].res < 0 =>
             ret # 0 /\ out = <<>> /\ err = <<"Failed to read report">>

C10_Witness ==
    /\ pc = "idle"
    /\ cmd = "battery"
    /\ hid[1].res = 0
    /\ ret = 2

(***************************************************************************)
(* What the properties read off a report given to hid_write.  The common   *)
(* block starts at byte 1 of a USB report and at byte 3 of a Bluetooth     *)
(* one; in it valid_flag0 is byte 0, valid_flag1 byte 1, the right         *)
(* trigger's mode byte 10 and its parameters bytes 11..20, the left        *)
(* trigger's mode byte 21 and its parameters bytes 22..31, valid_flag2     *)
(* byte 38.                                                                *)
(***************************************************************************)
SentCommon(w, off) == w.data[(IF ds.bt THEN 3 ELSE 1) + off + 1]

RightMode(w) == SentCommon(w, 10)
LeftMode(w) == SentCommon(w, 21)
RightParams(w) == [k \in 1..10 |-> SentCommon(w, 10 + k)]
LeftParams(w) == [k \in 1..10 |-> SentCommon(w, 21 + k)]

\* bit j of the 16-bit zone bitmap in parameter bytes 0..1
ZoneBit(p, j) == (p[1 + (j \div 8)] \div (2 ^ (j % 8))) % 2
\* bit j of the 32-bit accumulator in parameter bytes 2..5
StrengthBit(p, j) == (p[3 + (j \div 8)] \div (2 ^ (j % 8))) % 2
\* the 3-bit slot at bit offset 3 * i of the accumulator
StrengthSlot(p, i) ==
    StrengthBit(p, 3 * i) + 2 * StrengthBit(p, 3 * i + 1) + 4 * StrengthBit(p, 3 * i + 2)

\* parameters p carry the zone bitmap and packed strengths of the 10-entry
\* array strength (entries 0..8), two zero bytes, frequency, and a zero byte
PacksStrengths(p, strength, frequency) ==
    /\ \A i \in 0..9 :
         /\ ZoneBit(p, i) = IF strength[i + 1] > 0 THEN 1 ELSE 0
         /\ StrengthSlot(p, i) = IF strength[i + 1] > 0 THEN (strength[i + 1] - 1) % 8 ELSE 0
    /\ \A j \in 10..15 : ZoneBit(p, j) = 0
    /\ \A j \in 30..31 : StrengthBit(p, j) = 0
    /\ p[7] = 0 /\ p[8] = 0
    /\ p[9] = frequency
    /\ p[10] = 0

\* the last command wrote exactly one report, with this mode and these
\* parameters in both trigger blocks, and returned 0
SentTrigger(mode, Carries(_)) ==
    /\ ret = 0
    /\ Len(hid) = 1
    /\ hid[1].fn = "hid_write"
    /\ RightMode(hid[1]) = mode /\ LeftMode(hid[1]) = mode
    /\ Carries(RightParams(hid[1]))
    /\ Carries(LeftParams(hid[1]))

\* the last command failed validation and sent nothing
RejectedUnsent == ret # 0 /\ hid = <<>> /\ InputFailure(err)

WriteCommands ==
    {"lightbar1", "lightbar3", "player_leds", "microphone", "microphone_led", "speaker",
     "volume", "attenuation"}
TriggerCommands ==
    {"trigger", "trigger_off", "trigger_feedback", "trigger_weapon", "trigger_bow",
     "trigger_galloping", "trigger_machine", "trigger_vibration",
     "trigger_feedback_raw", "trigger_vibration_raw"}

(***************************************************************************)
(* C11.  A write command that passes validation initialises the report,    *)
(* sets its fields, stores the CRC (Bluetooth only) and writes, in that    *)
(* order, and writes exactly once: no command makes more than one          *)
(* hid_write call, one that passed validation makes exactly one, the       *)
(* report it writes is the initialised report with the command's fields    *)
(* and (on Bluetooth) the CRC over them, and the buffer is not touched     *)
(* after the write.                                                        *)
(***************************************************************************)
C11_WriteStepOrder ==
    /\ [](Len(HidWrites) <= 1)
    /\ []((pc = "idle" /\ cmd \in WriteCommands \cup TriggerCommands /\ ~InputFailure(err))
            => Len(HidWrites) = 1)
    /\ [][Sends =>
            LET w == hid'[1]
                n == rp.len
                signed == IF ds.bt THEN n - 4 ELSE n
            IN /\ hid = <<>>
               /\ Len(hid') = 1
               /\ w.fn = "hid_write"
               /\ rp.data[1] = IF ds.bt THEN 49 ELSE 2
               /\ ds.bt => /\ rp.data[2] % 16 = 0
                           /\ rp.data[3] = 16
                           /\ ds.output_seq = ((rp.data[2] \div 16) + 1) % 16
               /\ SentCommon(rp, 0) + SentCommon(rp, 1) + SentCommon(rp, 38) > 0
               /\ SubSeq(w.data, 1, signed) = SubSeq(rp.data, 1, signed)
               /\ ds.bt => SubSeq(w.data, n - 3, n) = OutputReportCrc(rp)
               /\ rp'.data = w.data
               /\ ds' = ds
               /\ pc' = "idle"]_vars

C11_Witness ==
    /\ pc = "idle"
    /\ cmd = "volume"
    /\ ds.bt
    /\ ds.output_seq = 2
    /\ Len(HidWrites) = 1
    /\ HidWrites[1].data[2] = 16

(***************************************************************************)
(* C12.  command_battery and command_info leave the session as it was and  *)
(* write no output report, whatever the outcome: bt, output_seq and        *)
(* mac_address are unchanged and hid_write is not called.                  *)
(***************************************************************************)
C12_QueriesLeaveSession ==
    [][(Returns /\ cmd' \in {"battery", "info"}) =>
         /\ ds' = ds
         /\ wire_seq' = wire_seq
         /\ Len(hid') = 1
         /\ hid'[1].fn # "hid_write"]_vars

C12_Witness ==
    /\ pc = "idle"
    /\ cmd = "info"
    /\ ret = 0
    /\ ds.bt
    /\ ds.output_seq = 2
    /\ wire_seq = <<1>>

(***************************************************************************)
(* C13.  In the report a trigger command sends, valid_flag0 has bit 2      *)
(* (right trigger) set iff the side is right or both and bit 3 (left       *)
(* trigger) set iff the side is left or both; with side both, the left and *)
(* the right trigger blocks carry the same mode byte and the same 10       *)
(* parameter bytes.                                                        *)
(***************************************************************************)
C13_TriggerSides ==
    (pc = "idle" /\ cmd \in TriggerCommands /\ Len(HidWrites) = 1) =>
        LET w == HidWrites[1]
            side == args[1]
            flag0 == SentCommon(w, 0)
        IN /\ ((flag0 \div 4) % 2 = 1) <=> (side \in {"right", "both"})
           /\ ((flag0 \div 8) % 2 = 1) <=> (side \in {"left", "both"})
           /\ side = "both" => /\ RightMode(w) = LeftMode(w)
                               /\ RightParams(w) = LeftParams(w)

C13_Witness ==
    /\ pc = "idle"
    /\ cmd = "trigger_weapon"
    /\ args[1] = "both"
    /\ Len(HidWrites) = 1
    /\ SentCommon(HidWrites[1], 0) = 12
    /\ RightMode(HidWrites[1]) = 37
    /\ RightParams(HidWrites[1])[3] = 7

(***************************************************************************)
(* C14.  trigger_bitpacking_array, on a 10-entry strength array: if an     *)
(* entry is above 8 the command fails validation and sends nothing;        *)
(* otherwise it sends the parameters zoneLow, zoneHigh, s0, s1, s2, s3, 0, *)
(* 0, frequency (tenth byte 0), where bit i of the zone bitmap is set iff  *)
(* entry i > 0 and the 3-bit slot at bit 3 * i of s3:s2:s1:s0 holds        *)
(* (entry i - 1) & 7 for an active entry and 0 for an inactive one.        *)
(***************************************************************************)
C14_ZoneBitPacking ==
    (pc = "idle" /\ cmd \in {"trigger_feedback_raw", "trigger_vibration_raw"}) =>
        LET strength == args[2]
            frequency == IF cmd = "trigger_vibration_raw" THEN args[3] ELSE 0
            Packed(p) == PacksStrengths(p, strength, frequency)
        IN IF \E i \in 1..10 : strength[i] > 8
           THEN RejectedUnsent
           ELSE /\ ret = 0
                /\ Len(hid) = 1
                /\ Packed(RightParams(hid[1]))
                /\ Packed(LeftParams(hid[1]))

C14_Witness ==
    /\ pc = "idle"
    /\ cmd = "trigger_feedback_raw"
    /\ args[2] = [i \in 1..10 |-> IF i \in {1, 10} THEN 8 ELSE 0]
    /\ Len(HidWrites) = 1
    /\ RightParams(HidWrites[1]) = <<1, 2, 7, 0, 0, 56, 0, 0, 0, 0>>

(***************************************************************************)
(* C15.  command_trigger_feedback(position, strength) is accepted exactly  *)
(* when position is in 0..9 and strength in 1..8; an accepted one sends    *)
(* mode 0x21, frequency byte 0, a zone bitmap with exactly the bits i,     *)
(* position <= i <= 9, and strength - 1 in the slot of every set zone, 0   *)
(* in the others.                                                          *)
(***************************************************************************)
C15_Feedback ==
    (pc = "idle" /\ cmd = "trigger_feedback") =>
        LET position == args[2]
            strength == args[3]
            Carries(p) ==
                /\ \A i \in 0..9 :
                     /\ ZoneBit(p, i) = IF i >= position THEN 1 ELSE 0
                     /\ StrengthSlot(p, i) = IF i >= position THEN strength - 1 ELSE 0
                /\ \A j \in 10..15 : ZoneBit(p, j) = 0
                /\ \A j \in 30..31 : StrengthBit(p, j) = 0
                /\ p[7] = 0 /\ p[8] = 0 /\ p[9] = 0 /\ p[10] = 0
        IN IF position \in 0..9 /\ strength \in 1..8
           THEN SentTrigger(33, Carries)
           ELSE RejectedUnsent

C15_Witness ==
    /\ pc = "idle"
    /\ cmd = "trigger_feedback"
    /\ args = <<"right", 3, 5>>
    /\ Len(HidWrites) = 1
    /\ RightParams(HidWrites[1])[1] = 248
    /\ RightParams(HidWrites[1])[2] = 3

(***************************************************************************)
(* C16.  command_trigger_weapon(start, end, strength) is accepted exactly  *)
(* when start is in 2..7, end in start+1..8 and strength in 1..8; an       *)
(* accepted one sends mode 0x25 and the parameters zoneLow, zoneHigh,      *)
(* strength - 1, 0, 0, 0, 0, 0, 0, the zone bitmap being                   *)
(* bit(start) | bit(end).                                                  *)
(***************************************************************************)
C16_Weapon ==
    (pc = "idle" /\ cmd = "trigger_weapon") =>
        LET start == args[2]
            end == args[3]
            strength == args[4]
            zones == 2 ^ start + 2 ^ end
            Carries(p) ==
                p = <<zones % 256, zones \div 256, strength - 1, 0, 0, 0, 0, 0, 0, 0>>
        IN IF start \in 2..7 /\ end \in (start + 1)..8 /\ strength \in 1..8
           THEN SentTrigger(37, Carries)
           ELSE RejectedUnsent

C16_Witness ==
    /\ pc = "idle"
    /\ cmd = "trigger_weapon"
    /\ args = <<"right", 2, 8, 8>>
    /\ Len(HidWrites) = 1
    /\ RightParams(HidWrites[1]) = <<4, 1, 7, 0, 0, 0, 0, 0, 0, 0>>

(***************************************************************************)
(* C17.  command_trigger_bow(start, end, strength, snapForce) is accepted  *)
(* exactly when start is in 0..8, end in start+1..8, strength in 1..8 and  *)
(* snapForce in 1..8; an accepted one sends mode 0x22, zone bitmap         *)
(* bit(start) | bit(end), the force byte ((strength - 1) & 7) |            *)
(* (((snapForce - 1) & 7) << 3) as third parameter and 0 in the others.    *)
(***************************************************************************)
C17_Bow ==
    (pc = "idle" /\ cmd = "trigger_bow") =>
        LET start == args[2]
            end == args[3]
            strength == args[4]
            snapForce == args[5]
            zones == 2 ^ start + 2 ^ end
            force == ((strength - 1) % 8) + 8 * ((snapForce - 1) % 8)
            Carries(p) == p = <<zones % 256, zones \div 256, force, 0, 0, 0, 0, 0, 0, 0>>
        IN IF start \in 0..8 /\ end \in (start + 1)..8 /\ strength \in 1..8
              /\ snapForce \in 1..8
           THEN SentTrigger(34, Carries)
           ELSE RejectedUnsent

(***************************************************************************)
(* C18.  command_trigger_feedback_raw is accepted exactly when each of the *)
(* 10 strengths is in 0..8, and is sent with mode 0x21 and frequency 0;    *)
(* command_trigger_vibration_raw is accepted exactly when each strength is *)
(* in 0..8 and frequency > 0, and is sent with mode 0x26 and the given     *)
(* frequency; with frequency 0 it fails validation and sends nothing.      *)
(***************************************************************************)
C18_RawBounds ==
    (pc = "idle" /\ cmd \in {"trigger_feedback_raw", "trigger_vibration_raw"}) =>
        LET strength == args[2]
            vibration == cmd = "trigger_vibration_raw"
            frequency == IF vibration THEN args[3] ELSE 0
            Carries(p) == p[9] = frequency
        IN IF (\A i \in 1..10 : strength[i] \in 0..8) /\ (vibration => frequency > 0)
           THEN SentTrigger(IF vibration THEN 38 ELSE 33, Carries)
           ELSE RejectedUnsent

(***************************************************************************)
(* C19.  command_trigger_vibration(position, amplitude, frequency) is      *)
(* accepted exactly when position is in 0..9, amplitude in 1..8 and        *)
(* frequency > 0; an accepted one sends mode 0x26, the zone bitmap and     *)
(* packed strengths of feedback(position, amplitude), and frequency in the *)
(* ninth parameter byte.                                                   *)
(***************************************************************************)
C19_Vibration ==
    (pc = "idle" /\ cmd = "trigger_vibration") =>
        LET position == args[2]
            amplitude == args[3]
            frequency == args[4]
            Carries(p) ==
                /\ \A i \in 0..9 :
                     /\ ZoneBit(p, i) = IF i >= position THEN 1 ELSE 0
                     /\ StrengthSlot(p, i) = IF i >= position THEN amplitude - 1 ELSE 0
                /\ \A j \in 10..15 : ZoneBit(p, j) = 0
                /\ \A j \in 30..31 : StrengthBit(p, j) = 0
                /\ p[7] = 0 /\ p[8] = 0 /\ p[9] = frequency /\ p[10] = 0
        IN IF position \in 0..9 /\ amplitude \in 1..8 /\ frequency > 0
           THEN SentTrigger(38, Carries)
           ELSE RejectedUnsent

C19_Witness ==
    /\ pc = "idle"
    /\ cmd = "trigger_vibration"
    /\ args = <<"left", 9, 8, 255>>
    /\ Len(HidWrites) = 1
    /\ LeftParams(HidWrites[1]) = <<0, 2, 0, 0, 0, 56, 0, 0, 255, 0>>

C21_Machine ==
    (pc = "idle" /\ cmd = "trigger_machine") =>
        LET start == args[2]
            end == args[3]
            strengthA == args[4]
            strengthB == args[5]
            frequency == args[6]
            period == args[7]
            zones == 2 ^ start + 2 ^ end
            force == (strengthA % 8) + 8 * (strengthB % 8)
            Carries(p) ==
                p = <<zones % 256, zones \div 256, force, frequency, period, 0, 0, 0, 0, 0>>
        IN IF start \in 1..8 /\ end \in (start + 1)..9 /\ strengthA \in 0..7
              /\ strengthB \in 0..7 /\ frequency > 0
           THEN SentTrigger(39, Carries)
           ELSE RejectedUnsent

C21_Witness ==
    /\ pc = "idle"
    /\ cmd = "trigger_machine"
    /\ args = <<"right", 1, 9, 7, 7, 9, 255>>
    /\ Len(HidWrites) = 1
    /\ hid[1].res >= 0
    /\ RightParams(HidWrites[1]) = <<2, 2, 63, 9, 255, 0, 0, 0, 0, 0>>

(***************************************************************************)
(* The named trigger effects and the bounds documented for their           *)
(* parameters; a is the argument tuple of the call, a[1] the trigger side. *)
(***************************************************************************)
NamedEffects ==
    {"trigger_feedback", "trigger_weapon", "trigger_bow", "trigger_galloping",
     "trigger_machine", "trigger_vibration", "trigger_feedback_raw",
     "trigger_vibration_raw"}

EffectInBounds(name, a) ==
    IF name = "trigger_feedback" THEN a[2] \in 0..9 /\ a[3] \in 1..8
    ELSE IF name = "trigger_weapon"
    THEN a[2] \in 2..7 /\ a[3] \in (a[2] + 1)..8 /\ a[4] \in 1..8
    ELSE IF name = "trigger_bow"
    THEN a[2] \in 0..8 /\ a[3] \in (a[2] + 1)..8 /\ a[4] \in 1..8 /\ a[5] \in 1..8
    ELSE IF name = "trigger_galloping"
    THEN /\ a[2] \in 0..8 /\ a[3] \in (a[2] + 1)..9
         /\ a[4] \in 0..6 /\ a[5] \in (a[4] + 1)..7 /\ a[6] > 0
    ELSE IF name = "trigger_machine"
    THEN /\ a[2] \in 1..8 /\ a[3] \in (a[2] + 1)..9
         /\ a[4] \in 0..7 /\ a[5] \in 0..7 /\ a[6] > 0
    ELSE IF name = "trigger_vibration" THEN a[2] \in 0..9 /\ a[3] \in 1..8 /\ a[4] > 0
    ELSE IF name = "trigger_feedback_raw" THEN \A i \in 1..10 : a[2][i] \in 0..8
    ELSE IF name = "trigger_vibration_raw"
    THEN (\A i \in 1..10 : a[2][i] \in 0..8) /\ a[3] > 0
    ELSE TRUE

(***************************************************************************)
(* C22.  Every named trigger effect (feedback, weapon, bow, galloping,     *)
(* machine, vibration, rawFeedback, rawVibration) is fail-fast: a call     *)
(* with a parameter outside its bound returns status 1 at once, with the   *)
(* validation message, before the report is initialised: no hidapi call is *)
(* made, nothing reaches the transport and the session (on Bluetooth, its  *)
(* sequence counter) is left as it was.                                    *)
(***************************************************************************)
C22_FailFast ==
    [][(pc = "idle" /\ ncmd' = ncmd + 1 /\ cmd' \in NamedEffects
        /\ ~EffectInBounds(cmd', args'))
       => (/\ pc' = "idle"
           /\ ret' = 1
           /\ hid' = <<>>
           /\ InputFailure(err')
           /\ ds' = ds
           /\ wire_seq' = wire_seq)]_vars

(***************************************************************************)
(* C23.  dualsense_init_output_report leaves the buffer all zero except    *)
(* for the header.  On USB byte 0 is 0x02 and the session's sequence       *)
(* counter is never changed.  On Bluetooth byte 0 is 0x31, byte 2 the tag  *)
(* 0x10, byte 1 the counter before the call in its high nibble and 0 in    *)
(* its low nibble, and the counter after the call is that counter plus 1   *)
(* modulo 16; the counter is within 0..15 in every reachable state.        *)
(***************************************************************************)
C23_InitOutputReport ==
    LET i == dualsense_init_output_report(ds)
        b == i.rp.data
    IN /\ ds.output_seq \in 0..15
       /\ Len(b) = i.rp.len
       /\ IF ds.bt
          THEN /\ b[1] = 49
               /\ b[2] = 16 * ds.output_seq
               /\ b[3] = 16
               /\ \A k \in 4..Len(b) : b[k] = 0
               /\ i.ds.output_seq = (ds.output_seq + 1) % 16
               /\ i.ds.output_seq \in 0..15
               /\ pc = "send" =>
                    /\ rp.data[1] = 49
                    /\ rp.data[2] = 16 * ((ds.output_seq + 15) % 16)
                    /\ rp.data[3] = 16
          ELSE /\ b[1] = 2
               /\ \A k \in 2..Len(b) : b[k] = 0
               /\ i.ds = ds
               /\ ds.output_seq = 0
               /\ pc = "send" => rp.data[1] = 2

C23_Witness ==
    /\ pc = "idle"
    /\ ds.bt
    /\ ncmd > 0
    /\ ds.output_seq = 0
    /\ Len(HidWrites) = 1
    /\ HidWrites[1].data[2] = 240
    /\ HidWrites[1].res >= 0
    /\ wire_seq = <<15>>

(***************************************************************************)
(* C24.  command_player_leds accepts exactly the numbers 0..5.  A number   *)
(* above 5 fails with status 1 and "Invalid player number" before any      *)
(* report is built or written.  For n in 0..5 the report sent has the      *)
(* player-indicator enable flag (valid_flag1 bit 4) set and in its         *)
(* player-LED byte the n-th entry of [0, bit2, bit3|bit1, bit4|bit2|bit0,  *)
(* bit4|bit3|bit1|bit0, bit4|bit3|bit2|bit1|bit0], which uses bits 0..4    *)
(* only.                                                                   *)
(***************************************************************************)
C24_PlayerLeds ==
    (pc = "idle" /\ cmd = "player_leds") =>
        LET n == args[1]
            pattern == <<0, 4, 8 + 2, 16 + 4 + 1, 16 + 8 + 2 + 1, 16 + 8 + 4 + 2 + 1>>
        IN IF n \in 0..5
           THEN /\ ret = 0
                /\ Len(hid) = 1
                /\ hid[1].fn = "hid_write"
                /\ SentCommon(hid[1], 43) = pattern[n + 1]
                /\ SentCommon(hid[1], 43) < 32
                /\ (SentCommon(hid[1], 1) \div 16) % 2 = 1
           ELSE /\ ret = 1
                /\ err = <<"Invalid player number">>
                /\ hid = <<>>
                /\ rp = NoReport

C24_Witness ==
    /\ pc = "idle"
    /\ cmd = "player_leds"
    /\ args = <<3>>
    /\ ret = 0
    /\ hid[1].res >= 0
    /\ SentCommon(hid[1], 43) = 21

(***************************************************************************)
(* C25.  command_lightbar3 scales each colour channel by brightness / 255: *)
(* for red, green, blue and brightness in 0..255 the three bytes sent are  *)
(* floor(brightness * channel / 255), computed with no 8-bit overflow.     *)
(* Each byte sent is at most its channel and at most the brightness;       *)
(* brightness 255 sends the channels unchanged and brightness 0 sends 0 in *)
(* all three.                                                              *)
(***************************************************************************)
C25_LightbarScaling ==
    (pc = "idle" /\ cmd = "lightbar3") =>
        /\ ret = 0
        /\ Len(hid) = 1
        /\ hid[1].fn = "hid_write"
        /\ \A k \in 1..3 :
             LET channel == args[k]
                 brightness == args[4]
                 sent == SentCommon(hid[1], 43 + k)
             IN /\ sent = (brightness * channel) \div 255
                /\ sent <= channel
                /\ sent <= brightness
                /\ brightness = 255 => sent = channel
                /\ brightness = 0 => sent = 0

C25_Witness ==
    /\ pc = "idle"
    /\ cmd = "lightbar3"
    /\ args = <<1, 86, 171, 253>>
    /\ ret = 0
    /\ hid[1].res >= 0
    /\ SentCommon(hid[1], 44) = 0
    /\ SentCommon(hid[1], 45) = 85
    /\ SentCommon(hid[1], 46) = 169

(***************************************************************************)
(* C27.  Each report sent carries exactly the valid-flag bits of its       *)
(* command and no other: lightbar on/off valid_flag2 bit 1; lightbar       *)
(* colour valid_flag1 bit 2; player LEDs valid_flag1 bit 4; microphone     *)
(* valid_flag1 bit 1; microphone LED valid_flag1 bit 0; speaker            *)
(* valid_flag0 bit 7; volume valid_flag0 bits 4 and 5; attenuation         *)
(* valid_flag1 bit 6; a trigger command valid_flag0 bit 2 for the right    *)
(* trigger and bit 3 for the left one.  With side left or right the other  *)
(* trigger's bit is not set although both trigger blocks are filled.       *)
(***************************************************************************)
ValidFlagsOf(name, a) ==
    IF name = "lightbar1" THEN <<0, 0, 2>>
    ELSE IF name = "lightbar3" THEN <<0, 4, 0>>
    ELSE IF name = "player_leds" THEN <<0, 16, 0>>
    ELSE IF name = "microphone" THEN <<0, 2, 0>>
    ELSE IF name = "microphone_led" THEN <<0, 1, 0>>
    ELSE IF name = "speaker" THEN <<128, 0, 0>>
    ELSE IF name = "volume" THEN <<16 + 32, 0, 0>>
    ELSE IF name = "attenuation" THEN <<0, 64, 0>>
    ELSE IF a[1] = "right" THEN <<4, 0, 0>>
    ELSE IF a[1] = "left" THEN <<8, 0, 0>>
    ELSE <<4 + 8, 0, 0>>

C27_ValidFlags ==
    (pc = "idle" /\ cmd \in WriteCommands \cup TriggerCommands /\ Len(hid) > 0) =>
        /\ Len(hid) = 1
        /\ hid[1].fn = "hid_write"
        /\ <<SentCommon(hid[1], 0), SentCommon(hid[1], 1), SentCommon(hid[1], 38)>>
             = ValidFlagsOf(cmd, args)
        /\ cmd \in TriggerCommands =>
             /\ args[1] \in {"left", "right", "both"}
             /\ RightMode(hid[1]) = LeftMode(hid[1])
             /\ RightParams(hid[1]) = LeftParams(hid[1])

C27_Witness ==
    /\ pc = "idle"
    /\ cmd = "trigger_bow"
    /\ args[1] = "left"
    /\ Len(hid) = 1
    /\ hid[1].res >= 0
    /\ SentCommon(hid[1], 0) = 8
    /\ RightMode(hid[1]) = 34
    /\ RightParams(hid[1]) # [k \in 1..10 |-> 0]

(***************************************************************************)
(* C28.  In every run of main in which dualsense_init has opened the       *)
(* handle, the handle has been closed by dualsense_destroy when the        *)
(* process returns its exit status, whatever the command and its outcome.  *)
(***************************************************************************)
C28_HandleClosedAtExit ==
    (pc = "exit" /\ ncmd > 0) => ds.dev = dualsense_destroy(ds).dev

(***************************************************************************)
(* C26.  In monitor mode with -w the hook run for a device event has       *)
(* completed before the monitor takes the next event: the hook runs in the *)
(* child the monitor waits for, and no grandchild is forked.  Without -w   *)
(* the hook never runs in the child: the monitor waits for the child only, *)
(* the hook runs in the grandchild, which nothing waits for, so that the   *)
(* monitor can take later events while earlier hooks still run.            *)
(***************************************************************************)
HookPending(k) ==
    monitor.child[k] \in {"start", "system"} \/ monitor.grandchild[k] = "system"

StatusBytes == 0..255

AllStatusReads ==
    LET sizes == {DS_INPUT_REPORT_USB_SIZE, DS_INPUT_REPORT_BT_SIZE}
        ids == {DS_INPUT_REPORT_USB, DS_INPUT_REPORT_BT}
    IN HidReads(sizes, ids, StatusBytes, StatusSamples)
       \cup HidReads(sizes, ids, StatusSamples, StatusBytes)

NextBattery == ncmd = 0 /\ \E read \in AllStatusReads : command_battery(read)

SpecBattery == Init /\ [][NextBattery]_vars

(***************************************************************************)
(* A trigger command alone, once on a fresh session, over the range of its *)
(* arguments.                                                              *)
(***************************************************************************)
NextTrigger ==
    \/ /\ ncmd = 0
       /\ \E t \in TriggerSides, mode \in TriggerModeSamples, params \in TriggerParamSamples :
            command_trigger(t, mode, params)
    \/ /\ ncmd = 0
       /\ \E t \in TriggerSides : command_trigger_off(t)
    \/ /\ ncmd = 0
       /\ \E t \in TriggerSides, position \in Positions, strength \in Strengths :
            command_trigger_feedback(t, position, strength)
    \/ /\ ncmd = 0
       /\ \E t \in TriggerSides, start \in Positions, end \in Positions,
             strength \in Strengths :
            command_trigger_weapon(t, start, end, strength)
    \/ /\ ncmd = 0
       /\ \E t \in {"left"}, start \in Positions, end \in Positions,
             strength \in Strengths, snap \in SnapForceSamples :
            command_trigger_bow(t, start, end, strength, snap)
    \/ /\ ncmd = 0
       /\ \E t \in {"both"}, start \in Positions, end \in Positions,
             first \in FootSamples, second \in FootSamples, f \in FootFrequencySamples :
            command_trigger_galloping(t, start, end, first, second, f)
    \/ /\ ncmd = 0
       /\ \E t \in {"right"}, start \in Positions, end \in Positions,
             a \in MachineStrengthSamples, b \in MachineStrengthSamples,
             f \in FootFrequencySamples, period \in PeriodSamples :
            command_trigger_machine(t, start, end, a, b, f, period)
    \/ /\ ncmd = 0
       /\ \E t \in TriggerSides, position \in Positions, amplitude \in Strengths,
             f \in FrequencySamples :
            command_trigger_vibration(t, position, amplitude, f)
    \/ SendOutputReport

SpecTrigger == Init /\ [][NextTrigger]_vars

(***************************************************************************)
(* A raw trigger effect alone, once on a fresh session, over strength      *)
(* arrays that fill one or two zones, or all of them.                      *)
(***************************************************************************)
NextRaw ==
    \/ /\ ncmd = 0
       /\ \E t \in TriggerSides, strength \in RawStrengthArrays :
            command_trigger_feedback_raw(t, strength)
    \/ /\ ncmd = 0
       /\ \E t \in TriggerSides, strength \in RawStrengthArrays, f \in RawFrequencies :
            command_trigger_vibration_raw(t, strength, f)
    \/ SendOutputReport

SpecRaw == Init /\ [][NextRaw]_vars

(***************************************************************************)
(* Sessions that have initialised up to MaxSent reports before the         *)
(* commands observed: on Bluetooth the counter has been advanced once per  *)
(* report and the last nibble given to hid_write is the one before it, on  *)
(* USB it is as dualsense_init left it.                                    *)
(***************************************************************************)
InitSeq ==
    /\ \E bt \in BOOLEAN, n \in 0..MaxSent :
         /\ ds = [dualsense_init(bt) EXCEPT !.output_seq = IF bt THEN n % 16 ELSE 0]
         /\ wire_seq = IF bt /\ n > 0 THEN <<(n - 1) % 16>> ELSE NoSeq
    /\ rp = NoReport
    /\ pc = "idle"
    /\ cmd = "none"
    /\ args = <<>>
    /\ ret = NoStatus
    /\ out = <<>>
    /\ err = <<>>
    /\ hid = <<>>
    /\ ncmd = 0
    /\ monitor = NoMonitor

NextSeq ==
    \/ \E state \in OnOffStates : command_lightbar1(state)
    \/ SendOutputReport

SpecSeq == InitSeq /\ [][NextSeq]_vars

(***************************************************************************)
(* The lightbar colour command alone, once on a fresh session, on colours  *)
(* whose three channels between them take every value, each with every     *)
(* second brightness: the even ones for an even red, the odd ones for an   *)
(* odd red.                                                                *)
(***************************************************************************)
ChannelBytes == 0..255

\* red in the lowest third, green and blue one and two thirds above it
SpreadColours == {<<c, (c + 85) % 256, (c + 170) % 256>> : c \in 0..85}

LightbarInputs ==
    {<<c, brightness>> \in SpreadColours \X ChannelBytes : (c[1] + brightness) % 2 = 0}

NextLightbar ==
    \/ /\ ncmd = 0
       /\ \E a \in LightbarInputs : command_lightbar3(a[1][1], a[1][2], a[1][3], a[2])
    \/ SendOutputReport

SpecLightbar == Init /\ [][NextLightbar]_vars

(***************************************************************************)
(* main: one command on the session dualsense_init has opened, then the    *)
(* return of its status.                                                   *)
(***************************************************************************)
NextMain ==
    \/ /\ ncmd = 0
       /\ \E state \in OnOffStates : command_lightbar1(state)
    \/ /\ ncmd = 0
       /\ \E c \in ColourSamples, b \in BrightnessSamples :
            command_lightbar3(c[1], c[2], c[3], b)
    \/ /\ ncmd = 0
       /\ \E number \in 0..MaxPlayerNumber : command_player_leds(number)
    \/ /\ ncmd = 0
       /\ \E state \in OnOffStates : command_microphone(state)
    \/ /\ ncmd = 0
       /\ \E state \in OnOffStates : command_microphone_led(state)
    \/ /\ ncmd = 0
       /\ \E state \in SpeakerStates : command_speaker(state)
    \/ /\ ncmd = 0
       /\ \E volume \in VolumeSamples : command_volume(volume)
    \/ /\ ncmd = 0
       /\ \E a \in AttenuationSamples : command_vibration_attenuation(a[1], a[2])
    \/ /\ ncmd = 0
       /\ \E t \in TriggerSides, mode \in TriggerModeSamples, params \in TriggerParamSamples :
            command_trigger(t, mode, params)
    \/ /\ ncmd = 0
       /\ \E t \in TriggerSides : command_trigger_off(t)
    \/ /\ ncmd = 0
       /\ \E a \in FeedbackSamples : command_trigger_feedback(a[1], a[2], a[3])
    \/ /\ ncmd = 0
       /\ \E a \in WeaponSamples : command_trigger_weapon(a[1], a[2], a[3], a[4])
    \/ /\ ncmd = 0
       /\ \E a \in BowSamples : command_trigger_bow(a[1], a[2], a[3], a[4], a[5])
    \/ /\ ncmd = 0
       /\ \E a \in GallopingSamples :
            command_trigger_galloping(a[1], a[2], a[3], a[4], a[5], a[6])
    \/ /\ ncmd = 0
       /\ \E a \in MachineSamples :
            command_trigger_machine(a[1], a[2], a[3], a[4], a[5], a[6], a[7])
    \/ /\ ncmd = 0
       /\ \E a \in VibrationSamples : command_trigger_vibration(a[1], a[2], a[3], a[4])
    \/ /\ ncmd = 0
       /\ \E t \in TriggerSides, strength \in RawStrengthSamples :
            command_trigger_feedback_raw(t, strength)
    \/ /\ ncmd = 0
       /\ \E t \in TriggerSides, strength \in RawStrengthSamples, f \in RawFrequencySamples :
            command_trigger_vibration_raw(t, strength, f)
    \/ /\ ncmd = 0
       /\ \E read \in BatteryReads : command_battery(read)
    \/ /\ ncmd = 0
       /\ \E res \in HidFeatureResults : command_info(res)
    \/ /\ ncmd = 0
       /\ main_invalid_arguments
    \/ SendOutputReport
    \/ main_return

SpecMain == Init /\ [][NextMain]_vars

(***************************************************************************)
(* dualsensectl monitor [-w] [add COMMAND] [remove COMMAND]: the monitor   *)
(* and the processes it forks, interleaved.                                *)
(***************************************************************************)
InitMonitor ==
    /\ ds = NoSession
    /\ rp = NoReport
    /\ pc = "monitor"
    /\ cmd = "none"
    /\ args = <<>>
    /\ ret = NoStatus
    /\ out = <<>>
    /\ err = <<>>
    /\ hid = <<>>
    /\ wire_seq = NoSeq
    /\ ncmd = 0
    /\ \E wait \in BOOLEAN :
         monitor = [NoMonitor EXCEPT !.sh_command_wait = wait, !.pc = "poll"]

NextMonitor ==
    \/ \E hooked \in BOOLEAN : add_device(hooked)
    \/ \E hooked \in BOOLEAN : remove_device(hooked)
    \/ \E k \in 1..Len(monitor.event) : run_sh_command_child(k)
    \/ \E k \in 1..Len(monitor.event) : run_sh_command_exit(k)
    \/ run_sh_command_waitpid
    \/ command_monitor_return

SpecMonitor == InitMonitor /\ [][NextMonitor]_vars

====
